---------------------------- MODULE Spec2Model ----------------------------
(***************************************************************************)
(* Model of the kids-keyboard engine                                       *)
(* (src/_fap/kids-keyboard/dist/kids-keyboard.js): the KeyboardState       *)
(* record, the pure editing and transformation functions, the handlers of  *)
(* virtual clicks, hardware key events and tutor-mode changes, and the     *)
(* public input and caret methods, its listeners and destroy, a second     *)
(* instance on the same document, and the class variant                    *)
(* TypingTutorKeyboard (src/unnamed/part_004) with its listeners.          *)
(*                                                                         *)
(* Strings are sequences of one-character strings.  A JavaScript number is *)
(* an integer or NaN; a value handed to the public API is a tagged record  *)
(* (Str, Num, Undefined) so that typeof can be modelled.  The backquote    *)
(* glyph of the layout is written "BQ": the TLA+ lexer reserves the        *)
(* backquote character.                                                    *)
(***************************************************************************)
EXTENDS Integers, Sequences, FiniteSets, TLC

(***************************************************************************)
(* Bounds of the model.                                                    *)
(***************************************************************************)
\* The length limit, scaled down from the 10000 of the source so that
\* buffers at, just above and beyond the limit are all explored.
MaxInputLen == 3

\* Longest recorded run of character presses (the typing history).
MaxPresses == 4

\* Longest buffer of the class variant, which has no length limit.
MaxTtkInput == 3

\* Most calls of Function.prototype.bind by one instance of the class
\* variant: two in the constructor, two in every destroy.
MaxBinds == 6

\* The number of successive character presses handed to the functional
\* variant.
MaxFtkPresses == 3

(***************************************************************************)
(* The state of one keyboard instance, with what the properties observe.   *)
(***************************************************************************)
VARIABLES
    options,       \* the construction options the model distinguishes
    state,         \* the live KeyboardState (null after destroy)
    isTutorMode,   \* the capture scope
    targetInput,   \* value and selectionStart of the target input element
    listeners,     \* the event listeners the instance has registered
    keyElements,   \* the key-element registry: its key-map names
    containerKeys, \* TRUE while the render container holds key nodes
    lastOp,        \* the operation that produced this state
    calls,         \* the subscriber callbacks that operation invoked, in order
    thrown,        \* TRUE when that operation threw to its caller
    snapshot,      \* the last state that operation handed to onStateChange
    view,          \* the classes of the container and of its key elements
    pointer,       \* where the mouse pointer is, as the mouse events told
    recording,     \* TRUE while only character presses have edited the buffer
    presses,       \* while recording: the presses, each with its modifiers
    probe,         \* a call of a pure function: arguments and result
    sibling,       \* a second instance constructed on the same document
    ttk,           \* an instance of the class variant TypingTutorKeyboard
    held,          \* the shift keys of the hardware keyboard that are down
    ftk            \* an instance of the functional variant createTypingTutorKeyboard

\* the instance, the host's elements, what the properties observe, the rest
instance == <<state, isTutorMode, targetInput>>
dom == <<listeners, keyElements, containerKeys>>
observed == <<lastOp, calls, thrown, snapshot, view>>
history == <<recording, presses>>
others == <<probe, sibling, ttk, held, ftk>>

vars == <<options, instance, dom, observed, pointer, history, others>>

(***************************************************************************)
(* JavaScript values.                                                      *)
(***************************************************************************)
\* The number NaN.  No caret, length or index the code computes from real
\* numbers equals it; every comparison and sum below goes through the
\* Js* operators, which give NaN its JavaScript meaning.
NaN == -1000

Str(s) == [type |-> "string", str |-> s, num |-> 0]
Num(n) == [type |-> "number", str |-> <<>>, num |-> n]
Undefined == [type |-> "undefined", str |-> <<>>, num |-> 0]

\* a < b, a > b, a <= b on JavaScript numbers: false when either is NaN
JsLt(a, b) == a # NaN /\ b # NaN /\ a < b
JsGt(a, b) == a # NaN /\ b # NaN /\ a > b
JsLe(a, b) == a # NaN /\ b # NaN /\ a <= b
\* a + b on JavaScript numbers
JsAdd(a, b) == IF a = NaN \/ b = NaN THEN NaN ELSE a + b

\* The index clamp of String.prototype.substring: NaN and negatives are 0,
\* values beyond the length are the length.
ClampIndex(i, len) == IF i = NaN \/ i < 0 THEN 0 ELSE IF i > len THEN len ELSE i

\* String.prototype.substring(start, end): both indices clamped, swapped
\* when start > end.
substring(s, start, end) ==
    LET a == ClampIndex(start, Len(s))
        b == ClampIndex(end, Len(s))
        lo == IF a <= b THEN a ELSE b
        hi == IF a <= b THEN b ELSE a
    IN  SubSeq(s, lo + 1, hi)

\* String.prototype.substring(start): to the end of the string
substringFrom(s, start) == substring(s, start, Len(s))

(***************************************************************************)
(* Characters.                                                             *)
(***************************************************************************)
LowerLetters == <<"a","b","c","d","e","f","g","h","i","j","k","l","m",
                  "n","o","p","q","r","s","t","u","v","w","x","y","z">>
UpperLetters == <<"A","B","C","D","E","F","G","H","I","J","K","L","M",
                  "N","O","P","Q","R","S","T","U","V","W","X","Y","Z">>

Range(f) == {f[i] : i \in DOMAIN f}

IndexIn(seq, ch) == CHOOSE i \in DOMAIN seq : seq[i] = ch

\* /^[a-z]$/i.test(char)
IsLetter(ch) == ch \in Range(LowerLetters) \cup Range(UpperLetters)

\* String.prototype.toUpperCase / toLowerCase on one character
toUpperCase(ch) ==
    IF ch \in Range(LowerLetters) THEN UpperLetters[IndexIn(LowerLetters, ch)] ELSE ch
toLowerCase(ch) ==
    IF ch \in Range(UpperLetters) THEN LowerLetters[IndexIn(UpperLetters, ch)] ELSE ch

(***************************************************************************)
(* Static tables.                                                          *)
(***************************************************************************)
KEYBOARD_LAYOUTS ==
  [default |-> <<
     <<"BQ","1","2","3","4","5","6","7","8","9","0","-","=","Backspace">>,
     <<"Tab","q","w","e","r","t","y","u","i","o","p","[","]","\\">>,
     <<"CapsLock","a","s","d","f","g","h","j","k","l",";","'","Enter">>,
     <<"ShiftLeft","z","x","c","v","b","n","m",",",".","/","ShiftRight">>,
     <<"Space">> >>,
   shift |-> <<
     <<"~","!","@","#","$","%","^","&","*","(",")","_","+","Backspace">>,
     <<"Tab","Q","W","E","R","T","Y","U","I","O","P","{","}","|">>,
     <<"CapsLock","A","S","D","F","G","H","J","K","L",":","\"","Enter">>,
     <<"ShiftLeft","Z","X","C","V","B","N","M","<",">","?","ShiftRight">>,
     <<"Space">> >>]

\* SHIFT_MAP as a sequence of <<unshifted, shifted>> pairs
SHIFT_MAP_PAIRS ==
  << <<"BQ","~">>, <<"1","!">>, <<"2","@">>, <<"3","#">>, <<"4","$">>, <<"5","%">>,
     <<"6","^">>, <<"7","&">>, <<"8","*">>, <<"9","(">>, <<"0",")">>, <<"-","_">>,
     <<"=","+">>, <<"[","{">>, <<"]","}">>, <<"\\","|">>, <<";",":">>, <<"'","\"">>,
     <<",","<">>, <<".",">">>, <<"/","?">> >>

ShiftMapped == {SHIFT_MAP_PAIRS[i][1] : i \in DOMAIN SHIFT_MAP_PAIRS}

\* SHIFT_MAP[char], for a mapped char
SHIFT_MAP(ch) ==
    SHIFT_MAP_PAIRS[CHOOSE i \in DOMAIN SHIFT_MAP_PAIRS : SHIFT_MAP_PAIRS[i][1] = ch][2]

\* getPhysicalKeyMap(): <<event.code, virtual key>> pairs
PHYSICAL_KEY_PAIRS ==
  << <<"Backquote","BQ">>, <<"Digit1","1">>, <<"Digit2","2">>, <<"Digit3","3">>,
     <<"Digit4","4">>, <<"Digit5","5">>, <<"Digit6","6">>, <<"Digit7","7">>,
     <<"Digit8","8">>, <<"Digit9","9">>, <<"Digit0","0">>, <<"Minus","-">>,
     <<"Equal","=">>, <<"Backspace","Backspace">>, <<"Tab","Tab">>,
     <<"KeyQ","q">>, <<"KeyW","w">>, <<"KeyE","e">>, <<"KeyR","r">>, <<"KeyT","t">>,
     <<"KeyY","y">>, <<"KeyU","u">>, <<"KeyI","i">>, <<"KeyO","o">>, <<"KeyP","p">>,
     <<"BracketLeft","[">>, <<"BracketRight","]">>, <<"Backslash","\\">>,
     <<"CapsLock","CapsLock">>, <<"KeyA","a">>, <<"KeyS","s">>, <<"KeyD","d">>,
     <<"KeyF","f">>, <<"KeyG","g">>, <<"KeyH","h">>, <<"KeyJ","j">>, <<"KeyK","k">>,
     <<"KeyL","l">>, <<"Semicolon",";">>, <<"Quote","'">>, <<"Enter","Enter">>,
     <<"ShiftLeft","ShiftLeft">>, <<"ShiftRight","ShiftRight">>, <<"KeyZ","z">>,
     <<"KeyX","x">>, <<"KeyC","c">>, <<"KeyV","v">>, <<"KeyB","b">>, <<"KeyN","n">>,
     <<"KeyM","m">>, <<"Comma",",">>, <<"Period",".">>, <<"Slash","/">>,
     <<"Space","Space">> >>

MappedCodes == {PHYSICAL_KEY_PAIRS[i][1] : i \in DOMAIN PHYSICAL_KEY_PAIRS}

\* physicalKeyMap.get(code), for a mapped code
physicalKeyMapGet(code) ==
    PHYSICAL_KEY_PAIRS[CHOOSE i \in DOMAIN PHYSICAL_KEY_PAIRS :
                          PHYSICAL_KEY_PAIRS[i][1] = code][2]

\* The length limit of the source (10000 there), at the model's scale.
MAX_INPUT_LENGTH == MaxInputLen

\* BROWSER_SUPPORT.hasGetModifierState on a browser with KeyboardEvent
BROWSER_SUPPORT_hasGetModifierState == TRUE

(***************************************************************************)
(* Pure utility functions.                                                 *)
(***************************************************************************)
\* a key token's length is 1 exactly for the literal glyphs
IsSingleChar(key) ==
    key \notin {"Backspace", "Enter", "Space", "Tab", "CapsLock", "ShiftLeft", "ShiftRight"}

\* transformCharacter with the case of a letter decided by shift OR caps
transformCharacter_ShiftOrCaps(char, st) ==
    IF IsLetter(char)
    THEN LET shouldUppercase == st.isShiftPressed \/ st.isCapsLockOn
         IN  IF shouldUppercase THEN toUpperCase(char) ELSE toLowerCase(char)
    ELSE IF st.isShiftPressed
         THEN IF char \in ShiftMapped THEN SHIFT_MAP(char) ELSE char
         ELSE char

\* transformCharacter with one blended predicate: symbols too follow
\* shift XOR caps
transformCharacter_Blended(char, st) ==
    LET effectiveShift == st.isShiftPressed # st.isCapsLockOn
    IN  IF IsLetter(char)
        THEN IF effectiveShift THEN toUpperCase(char) ELSE toLowerCase(char)
        ELSE IF effectiveShift
             THEN IF char \in ShiftMapped THEN SHIFT_MAP(char) ELSE char
             ELSE char

transformCharacter(char, st) ==
    IF IsLetter(char)
    THEN LET shouldUppercase == st.isShiftPressed # st.isCapsLockOn
         IN  IF shouldUppercase THEN toUpperCase(char) ELSE toLowerCase(char)
    ELSE IF st.isShiftPressed
         THEN IF char \in ShiftMapped THEN SHIFT_MAP(char) ELSE char
         ELSE char

\* validateInput truncating from the head: the last characters are kept
validateInput_KeepsTail(input) ==
    IF Len(input) > MAX_INPUT_LENGTH
    THEN substringFrom(input, Len(input) - MAX_INPUT_LENGTH)
    ELSE input

\* validateInput with the limit read from the option maxInputLength
validateInput_ReadsOption(input) ==
    LET limit == IF options.maxInputLength.type = "number"
                 THEN options.maxInputLength.num
                 ELSE MAX_INPUT_LENGTH
    IN  IF Len(input) > limit THEN substring(input, 0, limit) ELSE input

\* validateInput on a string (a non-string throws: see validateInputThrows)
validateInput(input) ==
    IF Len(input) > MAX_INPUT_LENGTH
    THEN substring(input, 0, MAX_INPUT_LENGTH)
    ELSE input

\* typeof input !== 'string', on a value of the API
\* validateInput without its type test
validateInputThrows_Never(v) == FALSE

validateInputThrows(v) == v.type # "string"

\* validateCaretPosition on a JavaScript number
validateCaretNumber(caretPosition, inputLength) ==
    IF JsLt(caretPosition, 0) THEN 0
    ELSE IF JsGt(caretPosition, inputLength) THEN inputLength
    ELSE caretPosition

\* validateCaretPosition on a value of the API: typeof first
validateCaretPosition(v, inputLength) ==
    IF v.type # "number" THEN 0 ELSE validateCaretNumber(v.num, inputLength)

\* updateInputAtCaret that leaves the caret before the new character
updateInputAtCaret_CaretStays(input, caretPosition, newChar) ==
    LET validInput == validateInput(input)
        validCaret == validateCaretNumber(caretPosition, Len(validInput))
        before == substring(validInput, 0, validCaret)
        after == substringFrom(validInput, validCaret)
    IN  [newInput |-> before \o <<newChar>> \o after,
         newCaretPosition |-> validCaret]

updateInputAtCaret(input, caretPosition, newChar) ==
    LET validInput == validateInput(input)
        validCaret == validateCaretNumber(caretPosition, Len(validInput))
        before == substring(validInput, 0, validCaret)
        after == substringFrom(validInput, validCaret)
    IN  [newInput |-> before \o <<newChar>> \o after,
         newCaretPosition |-> JsAdd(validCaret, 1)]

\* deleteAtCaret that removes the character after the caret
deleteAtCaret_Forward(input, caretPosition) ==
    LET validInput == validateInput(input)
        validCaret == validateCaretNumber(caretPosition, Len(validInput))
        before == substring(validInput, 0, validCaret)
        after == substringFrom(validInput, JsAdd(validCaret, 1))
    IN  IF JsLe(validCaret, 0)
        THEN [newInput |-> validInput, newCaretPosition |-> 0]
        ELSE [newInput |-> before \o after,
              newCaretPosition |-> JsAdd(validCaret, -1)]

deleteAtCaret(input, caretPosition) ==
    LET validInput == validateInput(input)
        validCaret == validateCaretNumber(caretPosition, Len(validInput))
        before == substring(validInput, 0, JsAdd(validCaret, -1))
        after == substringFrom(validInput, validCaret)
    IN  IF JsLe(validCaret, 0)
        THEN [newInput |-> validInput, newCaretPosition |-> 0]
        ELSE [newInput |-> before \o after,
              newCaretPosition |-> JsAdd(validCaret, -1)]

\* updateModifierStatesInternal reading the CapsLock state on events of the
\* CapsLock key only
updateModifierStatesInternal_CapsOnCapsKey(currentState, event) ==
    LET s1 == [currentState EXCEPT !.isShiftPressed = event.shiftKey]
        s2 == IF event.type = "keydown"
              THEN IF event.code = "ShiftLeft"
                   THEN [s1 EXCEPT !.isLeftShiftPressed = TRUE]
                   ELSE IF event.code = "ShiftRight"
                        THEN [s1 EXCEPT !.isRightShiftPressed = TRUE]
                        ELSE s1
              ELSE IF event.type = "keyup"
                   THEN IF event.code = "ShiftLeft"
                        THEN [s1 EXCEPT !.isLeftShiftPressed = FALSE]
                        ELSE IF event.code = "ShiftRight"
                             THEN [s1 EXCEPT !.isRightShiftPressed = FALSE]
                             ELSE s1
                   ELSE s1
    IN  IF event.code = "CapsLock"
        THEN [s2 EXCEPT !.isCapsLockOn = event.capsLock]
        ELSE s2

\* updateModifierStatesInternal deriving both specific flags from the shift
\* flag of the event
updateModifierStatesInternal_FlagsFollowShiftKey(currentState, event) ==
    LET s1 == [currentState EXCEPT !.isShiftPressed = event.shiftKey]
        s2 == IF event.code = "ShiftLeft"
              THEN [s1 EXCEPT !.isLeftShiftPressed = event.shiftKey]
              ELSE IF event.code = "ShiftRight"
                   THEN [s1 EXCEPT !.isRightShiftPressed = event.shiftKey]
                   ELSE s1
    IN  [s2 EXCEPT !.isCapsLockOn = event.capsLock]

(***************************************************************************)
(* Modifier state handling.                                                *)
(***************************************************************************)
\* event: [type, code, shiftKey, capsLock]; capsLock is what
\* event.getModifierState('CapsLock') reports
updateModifierStatesInternal(currentState, event) ==
    LET s1 == [currentState EXCEPT !.isShiftPressed = event.shiftKey]
        s2 == IF event.type = "keydown"
              THEN IF event.code = "ShiftLeft"
                   THEN [s1 EXCEPT !.isLeftShiftPressed = TRUE]
                   ELSE IF event.code = "ShiftRight"
                        THEN [s1 EXCEPT !.isRightShiftPressed = TRUE]
                        ELSE s1
              ELSE IF event.type = "keyup"
                   THEN IF event.code = "ShiftLeft"
                        THEN [s1 EXCEPT !.isLeftShiftPressed = FALSE]
                        ELSE IF event.code = "ShiftRight"
                             THEN [s1 EXCEPT !.isRightShiftPressed = FALSE]
                             ELSE s1
                   ELSE s1
    IN  IF BROWSER_SUPPORT_hasGetModifierState
           /\ event.capsLock # currentState.isCapsLockOn
        THEN [s2 EXCEPT !.isCapsLockOn = event.capsLock]
        ELSE s2

(***************************************************************************)
(* The instance: createKidsKeyboard.                                       *)
(***************************************************************************)
createKeyboardState ==
    [input |-> <<>>, caretPosition |-> 0, isShiftPressed |-> FALSE,
     isLeftShiftPressed |-> FALSE, isRightShiftPressed |-> FALSE,
     isCapsLockOn |-> FALSE]

\* lastOp: the operation, the key token it pressed (if any), its argument
\* (of a public method or of the constructor, or the hardware event a
\* handler handled), and whether an Error was raised in it
Op(op, key, arg, raised) == [op |-> op, key |-> key, arg |-> arg, raised |-> raised]

NoProbe == [fn |-> "none"]

\* JavaScript null (the state after destroy) and the object {} that the
\* spread {...null} creates
Null == [null |-> TRUE]
EmptyObject == [empty |-> TRUE]

\* no call of onStateChange in the operation
NoSnapshot == [none |-> TRUE]

ControlKeys == {"Backspace", "Enter", "Space", "Tab"}
ModifierKeys == {"ShiftLeft", "ShiftRight", "CapsLock"}

\* the subscriber callbacks of the options; an instance of the model is
\* given a function for each of them, and options.throws names the ones
\* whose function throws
Callbacks ==
    {"onKeyPress", "onStateChange", "onChange", "onKeyRelease",
     "onTutorModeChange", "onError"}

\* getKeyMapName(key): the registry name of a layout key
getKeyMapName(key) ==
    CASE key \in ModifierKeys -> key
      [] key = "Backspace" -> "backspace"
      [] key = "Enter" -> "enter"
      [] key = "Space" -> "space"
      [] key = "Tab" -> "tab"
      [] OTHER -> toLowerCase(key)

\* the registry renderKeyboard fills on the first render: one entry for
\* every key of the default layout
Cells ==
    {rc \in (1..5) \X (1..14) : rc[2] <= Len(KEYBOARD_LAYOUTS.default[rc[1]])}

renderKeyboard ==
    {getKeyMapName(KEYBOARD_LAYOUTS.default[rc[1]][rc[2]]) : rc \in Cells}

\* the listeners of a constructed instance: the delegated click listener
\* that renderKeyboard adds to the container, and those of
\* setupEventListeners on the document and on the tutor container
ClickListener == "container.click"
DocumentListeners == {"document.keydown", "document.keyup"}
TutorListeners == {"tutor.mouseenter", "tutor.mouseleave"}

setupEventListeners(opts) ==
    DocumentListeners \cup (IF opts.tutorContainer THEN TutorListeners ELSE {})

\* The classes the engine sets: shiftLayout is TRUE while the container
\* carries 'shift-layout', activeModifier holds the registry names of the
\* key elements that carry 'active-modifier'; highlighted and unhighlighted
\* hold the names of the key elements the current operation has left with
\* and without the class 'highlighted'.
\* the classes after the first render
RenderedView ==
    [shiftLayout |-> FALSE, activeModifier |-> {}, highlighted |-> {},
     unhighlighted |-> {}]

\* the classes as an operation finds them
Settled(v) == [v EXCEPT !.highlighted = {}, !.unhighlighted = {}]

\* updateLayoutClass with the class decided by shift OR caps
updateLayoutClass_ShiftOrCaps(v, st) ==
    [v EXCEPT !.shiftLayout = (st.isShiftPressed \/ st.isCapsLockOn)]

\* updateLayoutClass(container, state): classList.toggle('shift-layout', ...)
updateLayoutClass(v, st) ==
    [v EXCEPT !.shiftLayout = (st.isShiftPressed # st.isCapsLockOn)]

\* highlightKey(keyElements, key, highlight)
highlightKey(v, registry, key, highlight) ==
    LET keyMapName == getKeyMapName(key)
    IN  IF keyMapName \notin registry THEN v
        ELSE IF highlight
        THEN [v EXCEPT !.highlighted = @ \cup {keyMapName},
                       !.unhighlighted = @ \ {keyMapName}]
        ELSE [v EXCEPT !.highlighted = @ \ {keyMapName},
                       !.unhighlighted = @ \cup {keyMapName}]

\* updateKeyStates that marks both shift keys whenever shift is held
updateKeyStates_BothShiftKeys(v, registry, st) ==
    LET v1 == [v EXCEPT !.activeModifier =
                  {key \in ModifierKeys \cap registry :
                      \/ key \in {"ShiftLeft", "ShiftRight"} /\ st.isShiftPressed
                      \/ key = "CapsLock" /\ st.isCapsLockOn}]
    IN  IF "CapsLock" \notin registry THEN v1
        ELSE IF st.isCapsLockOn
        THEN [v1 EXCEPT !.highlighted = @ \cup {"CapsLock"},
                        !.unhighlighted = @ \ {"CapsLock"}]
        ELSE [v1 EXCEPT !.highlighted = @ \ {"CapsLock"},
                        !.unhighlighted = @ \cup {"CapsLock"}]

\* updateKeyStates(keyElements, state)
updateKeyStates(v, registry, st) ==
    LET v1 == [v EXCEPT !.activeModifier =
                  {key \in ModifierKeys \cap registry :
                      \/ key = "ShiftLeft" /\ st.isLeftShiftPressed
                      \/ key = "ShiftRight" /\ st.isRightShiftPressed
                      \/ key = "CapsLock" /\ st.isCapsLockOn}]
    IN  IF "CapsLock" \notin registry THEN v1
        ELSE IF st.isCapsLockOn
        THEN [v1 EXCEPT !.highlighted = @ \cup {"CapsLock"},
                        !.unhighlighted = @ \ {"CapsLock"}]
        ELSE [v1 EXCEPT !.highlighted = @ \ {"CapsLock"},
                        !.unhighlighted = @ \cup {"CapsLock"}]

\* the instance's state after construction, before any event
Constructed ==
    /\ state = createKeyboardState
    /\ isTutorMode = FALSE
    /\ keyElements = renderKeyboard
    /\ containerKeys = TRUE
    /\ listeners = {ClickListener} \cup setupEventListeners(options)
    /\ lastOp = Op("construct", "", Undefined, FALSE)
    /\ calls = <<>>
    /\ thrown = FALSE
    /\ snapshot = NoSnapshot
    /\ view = RenderedView
    /\ pointer = "outside"

(***************************************************************************)
(* A handler is modelled as a function on a run: the instance's state,     *)
(* capture scope and target input as the handler has left them so far, the *)
(* callbacks it has invoked, and whether an exception is propagating (the  *)
(* statements after a throw are skipped).                                  *)
(***************************************************************************)
RunOf(st, tutor, target) ==
    [state |-> st, isTutorMode |-> tutor, targetInput |-> target,
     calls |-> <<>>, thrown |-> FALSE, snapshot |-> NoSnapshot,
     keyElements |-> renderKeyboard, view |-> RenderedView]

\* safeCallback without its try/catch: the callback's exception propagates
safeCallback_Rethrows(opts, r, callback) ==
    IF r.thrown THEN r
    ELSE [r EXCEPT !.calls = Append(@, callback),
                   !.thrown = callback \in opts.throws]

\* safeCallback(callback, ...args): the callback is invoked and what it
\* throws is caught and logged
safeCallback(opts, r, callback) ==
    IF r.thrown THEN r
    ELSE [r EXCEPT !.calls = Append(@, callback)]

\* setState handing the previous state to onStateChange
setState_NotifiesPreviousState(opts, r, newState) ==
    IF r.thrown THEN r
    ELSE IF r.state = Null
         THEN [r EXCEPT !.state = newState, !.thrown = TRUE]
         ELSE LET layout == IF \/ r.state.isShiftPressed # newState.isShiftPressed
                               \/ r.state.isCapsLockOn # newState.isCapsLockOn
                            THEN updateLayoutClass(r.view, newState)
                            ELSE r.view
              IN  safeCallback(opts,
                      [r EXCEPT !.state = newState,
                                !.view = updateKeyStates(layout, r.keyElements, newState),
                                !.snapshot = r.state],
                      "onStateChange")

\* setState(newState); reading prevState.isShiftPressed throws a TypeError
\* when the previous state is null, after state has been assigned
setState(opts, r, newState) ==
    IF r.thrown THEN r
    ELSE IF r.state = Null
         THEN [r EXCEPT !.state = newState, !.thrown = TRUE]
         ELSE LET layout == IF \/ r.state.isShiftPressed # newState.isShiftPressed
                               \/ r.state.isCapsLockOn # newState.isCapsLockOn
                            THEN updateLayoutClass(r.view, newState)
                            ELSE r.view
              IN  safeCallback(opts,
                      [r EXCEPT !.state = newState,
                                !.view = updateKeyStates(layout, r.keyElements, newState),
                                !.snapshot = newState],
                      "onStateChange")

\* handleKeyPress toggling isCapsLockOn on the CapsLock key
handleKeyPressState_TogglesCapsLock(st, key) ==
    CASE key = "Backspace" ->
            LET r == deleteAtCaret(st.input, st.caretPosition)
            IN  [st EXCEPT !.input = r.newInput, !.caretPosition = r.newCaretPosition]
      [] key = "Enter" ->
            LET r == updateInputAtCaret(st.input, st.caretPosition, "\n")
            IN  [st EXCEPT !.input = r.newInput, !.caretPosition = r.newCaretPosition]
      [] key = "Space" ->
            LET r == updateInputAtCaret(st.input, st.caretPosition, " ")
            IN  [st EXCEPT !.input = r.newInput, !.caretPosition = r.newCaretPosition]
      [] key = "Tab" ->
            LET r == updateInputAtCaret(st.input, st.caretPosition, "\t")
            IN  [st EXCEPT !.input = r.newInput, !.caretPosition = r.newCaretPosition]
      [] key = "CapsLock" -> [st EXCEPT !.isCapsLockOn = ~@]
      [] key \in {"ShiftLeft", "ShiftRight"} -> st
      [] OTHER ->
            IF IsSingleChar(key)
            THEN LET transformedChar == transformCharacter(key, st)
                     r == updateInputAtCaret(st.input, st.caretPosition, transformedChar)
                 IN  [st EXCEPT !.input = r.newInput, !.caretPosition = r.newCaretPosition]
            ELSE st

\* the new state handleKeyPress hands to setState
handleKeyPressState(st, key) ==
    CASE key = "Backspace" ->
            LET r == deleteAtCaret(st.input, st.caretPosition)
            IN  [st EXCEPT !.input = r.newInput, !.caretPosition = r.newCaretPosition]
      [] key = "Enter" ->
            LET r == updateInputAtCaret(st.input, st.caretPosition, "\n")
            IN  [st EXCEPT !.input = r.newInput, !.caretPosition = r.newCaretPosition]
      [] key = "Space" ->
            LET r == updateInputAtCaret(st.input, st.caretPosition, " ")
            IN  [st EXCEPT !.input = r.newInput, !.caretPosition = r.newCaretPosition]
      [] key = "Tab" ->
            LET r == updateInputAtCaret(st.input, st.caretPosition, "\t")
            IN  [st EXCEPT !.input = r.newInput, !.caretPosition = r.newCaretPosition]
      [] key \in {"ShiftLeft", "ShiftRight", "CapsLock"} -> st
      [] OTHER ->
            IF IsSingleChar(key)
            THEN LET transformedChar == transformCharacter(key, st)
                     r == updateInputAtCaret(st.input, st.caretPosition, transformedChar)
                 IN  [st EXCEPT !.input = r.newInput, !.caretPosition = r.newCaretPosition]
            ELSE st

\* inputChanged at the end of handleKeyPress
inputChanged(key) == key \notin {"ShiftLeft", "ShiftRight", "CapsLock"}

\* targetInput.setSelectionRange(p, p) on a value of the given length: the
\* argument is converted to an unsigned long (NaN is 0) and clamped
setSelectionRange(p, len) == ClampIndex(p, len)

\* the sync of the target input at the end of handleKeyPress
syncTargetInput(opts, r, newState) ==
    IF r.thrown \/ ~(r.isTutorMode /\ opts.targetInput) THEN r
    ELSE [r EXCEPT !.targetInput =
             [value |-> newState.input,
              selectionStart |-> setSelectionRange(newState.caretPosition,
                                                   Len(newState.input))]]

\* handleKeyPress(key, event): onKeyPress, the edit, setState, then the
\* sync of the target input and onChange when the input changed.  On the
\* null state of a destroyed instance the edit of a character or control
\* key reads a field of null and throws; a modifier key hands {} to setState
handleKeyPress(opts, r, key) ==
    LET r1 == safeCallback(opts, r, "onKeyPress")
    IN  IF r1.thrown THEN r1
        ELSE IF r1.state = Null
        THEN IF key \in ModifierKeys
             THEN setState(opts, r1, EmptyObject)
             ELSE [r1 EXCEPT !.thrown = TRUE]
        ELSE LET newState == handleKeyPressState(r1.state, key)
                 r2 == setState(opts, r1, newState)
             IN  IF inputChanged(key)
                 THEN safeCallback(opts, syncTargetInput(opts, r2, newState), "onChange")
                 ELSE r2

\* the run of the instance as it stands, and the end of a handler
Current ==
    [RunOf(state, isTutorMode, targetInput) EXCEPT
        !.keyElements = keyElements, !.view = Settled(view)]

Commit(r) ==
    /\ state' = r.state
    /\ isTutorMode' = r.isTutorMode
    /\ targetInput' = r.targetInput
    /\ calls' = r.calls
    /\ thrown' = r.thrown
    /\ snapshot' = r.snapshot
    /\ view' = r.view

\* a handler that caught what was thrown in it
Caught(r) == [r EXCEPT !.thrown = FALSE]

\* the typing history: a character press under the modifiers (shift, caps)
\* is appended while recording; any other edit of the buffer ends the recording
RecordPress(key, shift, caps) ==
    IF recording /\ Len(presses) < MaxPresses
    THEN /\ recording' = TRUE
         /\ presses' = Append(presses, [key |-> key, shift |-> shift, caps |-> caps])
    ELSE /\ recording' = FALSE
         /\ presses' = <<>>

StopRecording == recording' = FALSE /\ presses' = <<>>

RecordKey(key, st) ==
    IF IsSingleChar(key)
    THEN RecordPress(key, st.isShiftPressed, st.isCapsLockOn)
    ELSE IF inputChanged(key) THEN StopRecording
         ELSE UNCHANGED <<recording, presses>>

(***************************************************************************)
(* The inputs the model draws.                                             *)
(***************************************************************************)
\* the cells of the default layout that hold one of the given keys
CellsOf(keys) ==
    {rc \in (1..5) \X (1..14) :
        /\ rc[2] <= Len(KEYBOARD_LAYOUTS.default[rc[1]])
        /\ KEYBOARD_LAYOUTS.default[rc[1]][rc[2]] \in keys}

\* the hardware events of the given type and codes, with every report of
\* the shift flag and of the CapsLock state
KeyEvents(type, codes) ==
    [type : {type}, code : codes, shiftKey : BOOLEAN, capsLock : BOOLEAN]

\* the keys clicked and the codes of the hardware events of Spec; F1 is a
\* code the physical key map does not hold
ClickedKeys == {"a"} \cup ControlKeys
EventCodes == {"KeyA", "F1"}

\* the keys and codes of the typing runs of SpecTyping
TypingKeys == {"a", "1"}
TypingCodes == {"KeyA", "Digit1"}

\* the text aAAaAA... of length n
PatternText(n) == [i \in 1..n |-> <<"a", "A", "A">>[((i - 1) % 3) + 1]]

\* arguments of setInput: texts below, at and beyond the limit, and a
\* value that is not a string
InputArgs ==
    {Str(PatternText(n)) : n \in 0..(MAX_INPUT_LENGTH + 2)} \cup {Num(5)}

\* arguments of setCaretPosition
CaretArgs ==
    {Num(n) : n \in (-1)..(MAX_INPUT_LENGTH + 2)} \cup {Num(NaN), Undefined}

NoTarget == [value |-> <<>>, selectionStart |-> 0]

(***************************************************************************)
(* The handlers and the public methods.                                    *)
(***************************************************************************)
\* handleContainerClick on the key element of cell (rowIndex, keyIndex):
\* handleKeyPress is called through safeCallback, which catches what it throws
handleContainerClick(opts, r, rowIndex, keyIndex) ==
    Caught(handleKeyPress(opts, r, KEYBOARD_LAYOUTS.default[rowIndex][keyIndex]))

ClickKey(rowIndex, keyIndex) ==
    LET originalKey == KEYBOARD_LAYOUTS.default[rowIndex][keyIndex]
    IN  /\ containerKeys
        /\ ClickListener \in listeners
        /\ Commit(handleContainerClick(options, Current, rowIndex, keyIndex))
        /\ IF state = Null THEN UNCHANGED history ELSE RecordKey(originalKey, state)
        /\ lastOp' = Op("click", originalKey, Undefined, FALSE)
        /\ UNCHANGED <<options, dom, pointer, others>>

\* handlePhysicalKeyDown updating the modifier flags before it looks the
\* code up in the physical key map
handlePhysicalKeyDownRun_ModifiersFirst(opts, r, event) ==
    IF ~r.isTutorMode THEN r
    ELSE IF r.state = Null THEN [r EXCEPT !.thrown = TRUE]
    ELSE LET r1 == setState(opts, r, updateModifierStatesInternal(r.state, event))
         IN  IF event.code \notin MappedCodes THEN r1
             ELSE LET virtualKey == physicalKeyMapGet(event.code)
                      r2 == [r1 EXCEPT !.view =
                               highlightKey(@, r1.keyElements, virtualKey, TRUE)]
                  IN  IF virtualKey \notin {"ShiftLeft", "ShiftRight"}
                      THEN handleKeyPress(opts, r2, virtualKey)
                      ELSE r2

\* handlePhysicalKeyDown without the test of the capture scope
handlePhysicalKeyDownRun_Ungated(opts, r, event) ==
    IF event.code \notin MappedCodes THEN r
    ELSE LET virtualKey == physicalKeyMapGet(event.code)
             r1 == setState(opts, r, updateModifierStatesInternal(r.state, event))
             r2 == IF r1.thrown THEN r1
                   ELSE [r1 EXCEPT !.view =
                            highlightKey(@, r1.keyElements, virtualKey, TRUE)]
         IN  IF virtualKey \notin {"ShiftLeft", "ShiftRight"}
             THEN handleKeyPress(opts, r2, virtualKey)
             ELSE r2

\* handlePhysicalKeyDown with the key press handled before the modifier
\* flags of the event are stored
handlePhysicalKeyDownRun_InsertsFirst(opts, r, event) ==
    IF ~r.isTutorMode \/ event.code \notin MappedCodes THEN r
    ELSE IF r.state = Null THEN [r EXCEPT !.thrown = TRUE]
    ELSE LET virtualKey == physicalKeyMapGet(event.code)
             r1 == IF virtualKey \notin {"ShiftLeft", "ShiftRight"}
                   THEN handleKeyPress(opts, r, virtualKey)
                   ELSE r
             r2 == IF r1.thrown THEN r1
                   ELSE setState(opts, r1, updateModifierStatesInternal(r1.state, event))
         IN  IF r2.thrown THEN r2
             ELSE [r2 EXCEPT !.view = highlightKey(@, r2.keyElements, virtualKey, TRUE)]

\* handlePhysicalKeyDown(event) as a function on runs; on the null state of
\* a destroyed instance updateModifierStatesInternal reads a field of null
\* and throws
handlePhysicalKeyDownRun(opts, r, event) ==
    IF ~r.isTutorMode \/ event.code \notin MappedCodes THEN r
    ELSE IF r.state = Null THEN [r EXCEPT !.thrown = TRUE]
    ELSE LET virtualKey == physicalKeyMapGet(event.code)
             modifierState == updateModifierStatesInternal(r.state, event)
             r1 == setState(opts, r, modifierState)
             r2 == IF r1.thrown THEN r1
                   ELSE [r1 EXCEPT !.view =
                            highlightKey(@, r1.keyElements, virtualKey, TRUE)]
         IN  IF virtualKey \notin {"ShiftLeft", "ShiftRight"}
             THEN handleKeyPress(opts, r2, virtualKey)
             ELSE r2

handlePhysicalKeyDown(event) ==
    LET handled == isTutorMode /\ event.code \in MappedCodes
        virtualKey == IF handled THEN physicalKeyMapGet(event.code) ELSE ""
    IN  /\ "document.keydown" \in listeners
        /\ Commit(handlePhysicalKeyDownRun(options, Current, event))
        /\ IF ~handled THEN UNCHANGED history
           ELSE IF IsSingleChar(virtualKey)
                THEN RecordPress(virtualKey, event.shiftKey, event.capsLock)
                ELSE IF inputChanged(virtualKey) THEN StopRecording
                     ELSE UNCHANGED history
        /\ lastOp' = Op("keydown", virtualKey,
                        IF handled /\ state # Null THEN event ELSE Undefined, FALSE)
        /\ UNCHANGED <<options, dom, pointer, others>>

\* handlePhysicalKeyUp(event) as a function on runs
handlePhysicalKeyUpRun(opts, r, event) ==
    IF ~r.isTutorMode \/ event.code \notin MappedCodes THEN r
    ELSE IF r.state = Null THEN [r EXCEPT !.thrown = TRUE]
    ELSE LET virtualKey == physicalKeyMapGet(event.code)
             r1 == setState(opts, r, updateModifierStatesInternal(r.state, event))
             r2 == IF ~r1.thrown /\ (virtualKey # "CapsLock" \/ ~r1.state.isCapsLockOn)
                   THEN [r1 EXCEPT !.view =
                            highlightKey(@, r1.keyElements, virtualKey, FALSE)]
                   ELSE r1
         IN  safeCallback(opts, r2, "onKeyRelease")

handlePhysicalKeyUp(event) ==
    LET handled == isTutorMode /\ event.code \in MappedCodes
    IN  /\ "document.keyup" \in listeners
        /\ Commit(handlePhysicalKeyUpRun(options, Current, event))
        /\ lastOp' = Op("keyup", IF handled THEN physicalKeyMapGet(event.code) ELSE "",
                        IF handled /\ state # Null THEN event ELSE Undefined, FALSE)
        /\ UNCHANGED <<options, dom, pointer, history, others>>

\* handleTutorEnter building the synchronised state from a fresh
\* KeyboardState
handleTutorEnterRun_FreshState(opts, r) ==
    LET r1 == [r EXCEPT !.isTutorMode = TRUE]
        r2 == IF opts.targetInput
              THEN setState(opts, r1,
                      [createKeyboardState EXCEPT
                          !.input = r1.targetInput.value,
                          !.caretPosition = r1.targetInput.selectionStart])
              ELSE r1
    IN  safeCallback(opts, r2, "onTutorModeChange")

\* handleTutorEnter(event) as a function on runs; target.value || '' and
\* target.selectionStart || 0 are the target's value and selection start
handleTutorEnterRun(opts, r) ==
    LET r1 == [r EXCEPT !.isTutorMode = TRUE]
        r2 == IF opts.targetInput
              THEN setState(opts, r1,
                      [r1.state EXCEPT !.input = r1.targetInput.value,
                                       !.caretPosition = r1.targetInput.selectionStart])
              ELSE r1
    IN  safeCallback(opts, r2, "onTutorModeChange")

\* mouseenter on the tutor container
handleTutorEnter ==
    /\ "tutor.mouseenter" \in listeners
    /\ Commit(handleTutorEnterRun(options, Current))
    /\ pointer' = "inside"
    /\ IF options.targetInput THEN StopRecording ELSE UNCHANGED history
    /\ lastOp' = Op("tutorEnter", "", Undefined, FALSE)
    /\ UNCHANGED <<options, dom, others>>

\* handleTutorLeave(event) as a function on runs
handleTutorLeaveRun(opts, r) ==
    safeCallback(opts, [r EXCEPT !.isTutorMode = FALSE], "onTutorModeChange")

\* mouseleave on the tutor container
handleTutorLeave ==
    /\ "tutor.mouseleave" \in listeners
    /\ Commit(handleTutorLeaveRun(options, Current))
    /\ pointer' = "outside"
    /\ lastOp' = Op("tutorLeave", "", Undefined, FALSE)
    /\ UNCHANGED <<options, dom, history, others>>

\* {...state, input, caretPosition}: the spread of null copies nothing, so
\* the object built on a destroyed instance has no modifier field, and a
\* read of one gives undefined
SpreadWithInput(st, input, caretPosition) ==
    IF st = Null
    THEN [input |-> input, caretPosition |-> caretPosition,
          isShiftPressed |-> Undefined, isLeftShiftPressed |-> Undefined,
          isRightShiftPressed |-> Undefined, isCapsLockOn |-> Undefined]
    ELSE [st EXCEPT !.input = input, !.caretPosition = caretPosition]

\* setInput building its new state from a fresh KeyboardState
setInputRun_FreshState(opts, r, input) ==
    IF validateInputThrows(input) THEN Caught(r)
    ELSE LET validInput == validateInput(input.str)
             newState == [createKeyboardState EXCEPT
                            !.input = validInput,
                            !.caretPosition =
                                validateCaretNumber(Len(validInput), Len(validInput))]
         IN  Caught(safeCallback(opts, setState(opts, r, newState), "onChange"))

\* setInput(input) as a function on runs: the body runs in a try block
\* whose catch logs the error
setInputRun(opts, r, input) ==
    IF validateInputThrows(input) THEN Caught(r)
    ELSE LET validInput == validateInput(input.str)
             newState == SpreadWithInput(r.state, validInput,
                            validateCaretNumber(Len(validInput), Len(validInput)))
         IN  Caught(safeCallback(opts, setState(opts, r, newState), "onChange"))

setInput(input) ==
    /\ Commit(setInputRun(options, Current, input))
    /\ IF validateInputThrows(input) THEN UNCHANGED history ELSE StopRecording
    /\ lastOp' = Op("setInput", "", input, validateInputThrows(input))
    /\ UNCHANGED <<options, dom, pointer, others>>

\* clearInput() as a function on runs
clearInputRun(opts, r) ==
    safeCallback(opts, setState(opts, r, SpreadWithInput(r.state, <<>>, 0)), "onChange")

clearInput ==
    /\ Commit(clearInputRun(options, Current))
    /\ StopRecording
    /\ lastOp' = Op("clearInput", "", Undefined, FALSE)
    /\ UNCHANGED <<options, dom, pointer, others>>

\* setCaretPosition(position) as a function on runs, in its try block; on
\* the null state state.input throws inside the try
setCaretPositionRun(opts, r, position) ==
    IF r.state = Null THEN Caught([r EXCEPT !.thrown = TRUE])
    ELSE Caught(setState(opts, r,
             [r.state EXCEPT
                !.caretPosition = validateCaretPosition(position, Len(r.state.input))]))

setCaretPosition(position) ==
    /\ Commit(setCaretPositionRun(options, Current, position))
    /\ StopRecording
    /\ lastOp' = Op("setCaretPosition", "", position, FALSE)
    /\ UNCHANGED <<options, dom, pointer, others>>

\* destroy() whose removeEventListener calls do not find the document
\* listeners
destroy_KeepsDocumentListeners ==
    /\ listeners' = listeners \ TutorListeners
    /\ containerKeys' = FALSE
    /\ keyElements' = {}
    /\ state' = Null
    /\ calls' = <<>>
    /\ thrown' = FALSE
    /\ snapshot' = NoSnapshot
    /\ view' = [Settled(view) EXCEPT !.activeModifier = {}]
    /\ lastOp' = Op("destroy", "", Undefined, FALSE)
    /\ UNCHANGED <<options, isTutorMode, targetInput, pointer, history, others>>

\* destroy(): the document listeners and those of the tutor container are
\* removed, the container is emptied, the registry cleared and the state
\* set to null.  The listener handleContainerClick stays on the container
\* and isTutorMode keeps its value.  The references targetInput and
\* tutorContainer are cleared too; no handler reads them once the state is
\* null and the listeners are gone.
destroy ==
    /\ listeners' = listeners \ (DocumentListeners \cup TutorListeners)
    /\ containerKeys' = FALSE
    /\ keyElements' = {}
    /\ state' = Null
    /\ calls' = <<>>
    /\ thrown' = FALSE
    /\ snapshot' = NoSnapshot
    /\ view' = [Settled(view) EXCEPT !.activeModifier = {}]
    /\ lastOp' = Op("destroy", "", Undefined, FALSE)
    /\ UNCHANGED <<options, isTutorMode, targetInput, pointer, history, others>>

\* a new keyboard built in the container of the destroyed instance: its
\* renderKeyboard fills the container with key nodes of its own
RebuildInContainer ==
    /\ state = Null
    /\ ~containerKeys
    /\ containerKeys' = TRUE
    /\ calls' = <<>>
    /\ thrown' = FALSE
    /\ snapshot' = NoSnapshot
    /\ view' = [Settled(view) EXCEPT !.shiftLayout = FALSE]
    /\ lastOp' = Op("rebuild", "", Undefined, FALSE)
    /\ UNCHANGED <<options, instance, listeners, keyElements, pointer, history, others>>

\* a hardware key event on a document that holds no listener of the
\* instance for its type: no handler of the instance runs
UnheardKeyEvent(event) ==
    /\ (IF event.type = "keydown" THEN "document.keydown" ELSE "document.keyup")
          \notin listeners
    /\ calls' = <<>>
    /\ thrown' = FALSE
    /\ snapshot' = NoSnapshot
    /\ view' = Settled(view)
    /\ lastOp' = Op(event.type, "", Undefined, FALSE)
    /\ UNCHANGED <<options, instance, dom, pointer, history, others>>

\* the pointer enters or leaves the tutor container while it holds no
\* listener of the instance
UnheardMouseEvent(type) ==
    /\ options.tutorContainer
    /\ (IF type = "mouseenter" THEN "tutor.mouseenter" ELSE "tutor.mouseleave")
          \notin listeners
    /\ pointer' = IF type = "mouseenter" THEN "inside" ELSE "outside"
    /\ calls' = <<>>
    /\ thrown' = FALSE
    /\ snapshot' = NoSnapshot
    /\ view' = Settled(view)
    /\ lastOp' = Op(type, "", Undefined, FALSE)
    /\ UNCHANGED <<options, instance, dom, history, others>>

(***************************************************************************)
(* Calls of the pure functions: the arguments are drawn by the initial     *)
(* state, the actions apply the function.                                  *)
(***************************************************************************)
\* the characters handed to transformCharacter: the letters in both cases,
\* the symbols of SHIFT_MAP, their shifted forms and the white space
ProbeChars ==
    Range(LowerLetters) \cup Range(UpperLetters) \cup ShiftMapped
       \cup {SHIFT_MAP_PAIRS[i][2] : i \in DOMAIN SHIFT_MAP_PAIRS}
       \cup {" ", "\n", "\t"}

\* the texts of a's and b's up to the given length
RECURSIVE TextsUpTo(_)
TextsUpTo(n) ==
    IF n = 0 THEN {<<>>}
    ELSE LET shorter == TextsUpTo(n - 1)
         IN  shorter \cup {Append(t, c) : t \in shorter, c \in {"a", "b"}}

ApplyTransformCharacter ==
    /\ probe.fn = "transformCharacter"
    /\ ~probe.done
    /\ probe' = [probe EXCEPT
          !.done = TRUE,
          !.result = transformCharacter(probe.char,
                        [isShiftPressed |-> probe.shift, isCapsLockOn |-> probe.caps])]
    /\ UNCHANGED <<options, instance, dom, observed, pointer, history, sibling, ttk, held, ftk>>

ApplyUpdateInputAtCaret ==
    /\ probe.fn = "roundTrip"
    /\ probe.stage = "start"
    /\ probe' = [probe EXCEPT
          !.stage = "inserted",
          !.mid = updateInputAtCaret(probe.input, probe.caret, probe.char)]
    /\ UNCHANGED <<options, instance, dom, observed, pointer, history, sibling, ttk, held, ftk>>

ApplyDeleteAtCaret ==
    /\ probe.fn = "roundTrip"
    /\ probe.stage = "inserted"
    /\ probe' = [probe EXCEPT
          !.stage = "deleted",
          !.final = deleteAtCaret(probe.mid.newInput, probe.mid.newCaretPosition)]
    /\ UNCHANGED <<options, instance, dom, observed, pointer, history, sibling, ttk, held, ftk>>

\* Objects are held by reference: a heap is a sequence of objects and a
\* reference is an index into it.  { ...currentState } allocates a new
\* object with the fields of currentState; the assignments of the function
\* go to that object, whose reference is returned.
\* updateModifierStatesInternal assigning to the object it was given
updateModifierStatesInternalOnHeap_Aliased(heap, currentState, event) ==
    [heap |-> [heap EXCEPT ![currentState] =
                  updateModifierStatesInternal(heap[currentState], event)],
     returned |-> currentState]

\* updateModifierStatesInternal(currentState, event) on references
updateModifierStatesInternalOnHeap(heap, currentState, event) ==
    LET spread == Append(heap, heap[currentState])
        newState == Len(spread)
    IN  [heap |-> [spread EXCEPT ![newState] =
                      updateModifierStatesInternal(spread[newState], event)],
         returned |-> newState]

ApplyUpdateModifierStatesInternal ==
    /\ probe.fn = "updateModifierStatesInternal"
    /\ probe.stage = "start"
    /\ LET result == updateModifierStatesInternalOnHeap(probe.heap, probe.currentState,
                                                        probe.event)
       IN  probe' = [probe EXCEPT !.stage = "returned",
                                  !.heap = result.heap,
                                  !.returned = result.returned]
    /\ UNCHANGED <<options, instance, dom, observed, pointer, history, sibling, ttk, held, ftk>>

NoOptions ==
    [maxInputLength |-> Undefined, targetInput |-> FALSE, tutorContainer |-> FALSE,
     throws |-> {}]

\* no second instance, no instance of the class variant
NoSibling == [placement |-> "none"]
NoTtk == [constructed |-> FALSE]
NoFtk == [constructed |-> FALSE]

Idle ==
    /\ options = NoOptions
    /\ Constructed
    /\ sibling = NoSibling
    /\ ttk = NoTtk
    /\ held = {}
    /\ ftk = NoFtk
    /\ targetInput = NoTarget
    /\ recording = FALSE
    /\ presses = <<>>

InitTransform ==
    /\ Idle
    /\ probe \in [fn : {"transformCharacter"}, char : ProbeChars,
                  shift : BOOLEAN, caps : BOOLEAN, done : {FALSE}, result : {""}]

SpecTransform == InitTransform /\ [][ApplyTransformCharacter]_vars

InitEdit ==
    /\ Idle
    /\ probe \in {[fn |-> "roundTrip", stage |-> "start", input |-> t, caret |-> c,
                   char |-> ch,
                   mid |-> [newInput |-> <<>>, newCaretPosition |-> 0],
                   final |-> [newInput |-> <<>>, newCaretPosition |-> 0]] :
                     t \in TextsUpTo(MAX_INPUT_LENGTH + 1),
                     c \in 0..(MAX_INPUT_LENGTH + 1),
                     ch \in {"a", "b"}}
    /\ probe.caret <= Len(probe.input)

NextEdit == ApplyUpdateInputAtCaret \/ ApplyDeleteAtCaret

SpecEdit == InitEdit /\ [][NextEdit]_vars

\* updateModifierStatesInternal on every state with a text of up to two
\* characters and every hardware event of the codes of SpecModifiers
InitModifierFunction ==
    /\ Idle
    /\ probe \in {[fn |-> "updateModifierStatesInternal", stage |-> "start",
                   given |-> st, heap |-> <<st>>, currentState |-> 1,
                   event |-> e, returned |-> 0] :
                     st \in [input : TextsUpTo(2), caretPosition : 0..2,
                             isShiftPressed : BOOLEAN, isLeftShiftPressed : BOOLEAN,
                             isRightShiftPressed : BOOLEAN, isCapsLockOn : BOOLEAN],
                     e \in [type : {"keydown", "keyup"},
                            code : {"Enter", "ShiftLeft", "ShiftRight", "CapsLock", "F1"},
                            shiftKey : BOOLEAN, capsLock : BOOLEAN]}
    /\ probe.given.caretPosition <= Len(probe.given.input)

SpecModifierFunction == InitModifierFunction /\ [][ApplyUpdateModifierStatesInternal]_vars

(***************************************************************************)
(* The specification of one instance: clicks, hardware events, tutor mode  *)
(* and the public methods, on an instance without a target input.          *)
(***************************************************************************)
Init ==
    /\ options \in [maxInputLength : {Undefined}, targetInput : {FALSE},
                    tutorContainer : BOOLEAN, throws : {{}}]
    /\ Constructed
    /\ targetInput = NoTarget
    /\ recording = FALSE
    /\ presses = <<>>
    /\ probe = NoProbe
    /\ sibling = NoSibling
    /\ ttk = NoTtk
    /\ held = {}
    /\ ftk = NoFtk

Next ==
    \/ \E rc \in CellsOf(ClickedKeys) : ClickKey(rc[1], rc[2])
    \/ \E e \in KeyEvents("keydown", EventCodes) : handlePhysicalKeyDown(e)
    \/ \E e \in KeyEvents("keyup", EventCodes) : handlePhysicalKeyUp(e)
    \/ handleTutorEnter
    \/ handleTutorLeave
    \/ \E v \in InputArgs : setInput(v)
    \/ clearInput
    \/ \E v \in CaretArgs : setCaretPosition(v)

Spec == Init /\ [][Next]_vars

(***************************************************************************)
(* Typing runs: from the constructed instance, only character presses      *)
(* (clicks and hardware key events) under changing modifiers.              *)
(***************************************************************************)
InitTyping ==
    /\ options = [maxInputLength |-> Undefined, targetInput |-> FALSE,
                  tutorContainer |-> TRUE, throws |-> {}]
    /\ Constructed
    /\ targetInput = NoTarget
    /\ recording = TRUE
    /\ presses = <<>>
    /\ probe = NoProbe
    /\ sibling = NoSibling
    /\ ttk = NoTtk
    /\ held = {}
    /\ ftk = NoFtk

NextTyping ==
    \/ \E rc \in CellsOf(TypingKeys) : ClickKey(rc[1], rc[2])
    \/ \E e \in KeyEvents("keydown", TypingCodes) : handlePhysicalKeyDown(e)
    \/ \E e \in KeyEvents("keyup", {"KeyA"}) : handlePhysicalKeyUp(e)
    \/ handleTutorEnter

SpecTyping == InitTyping /\ [][NextTyping]_vars

(***************************************************************************)
(* Instances constructed with and without the option maxInputLength, used  *)
(* through clicks and the public methods.                                  *)
(***************************************************************************)
InitApi ==
    /\ options \in [maxInputLength : {Undefined, Num(1), Num(MAX_INPUT_LENGTH + 1)},
                    targetInput : {FALSE}, tutorContainer : {FALSE}, throws : {{}}]
    /\ Constructed
    /\ targetInput = NoTarget
    /\ recording = FALSE
    /\ presses = <<>>
    /\ probe = NoProbe
    /\ sibling = NoSibling
    /\ ttk = NoTtk
    /\ held = {}
    /\ ftk = NoFtk

NextApi ==
    \/ \E rc \in CellsOf(ClickedKeys) : ClickKey(rc[1], rc[2])
    \/ \E v \in InputArgs : setInput(v)
    \/ clearInput
    \/ \E v \in CaretArgs : setCaretPosition(v)

SpecApi == InitApi /\ [][NextApi]_vars

(***************************************************************************)
(* The public methods on an instance whose modifier flags are set and      *)
(* cleared by hardware events in tutor mode.                               *)
(***************************************************************************)
FrameCodes == {"KeyA", "ShiftLeft", "ShiftRight"}
FrameInputArgs == {Str(PatternText(n)) : n \in {0, 2, MAX_INPUT_LENGTH}} \cup {Num(5)}
FrameCaretArgs == {Num(0), Num(1), Num(MAX_INPUT_LENGTH + 1)}

InitFrame ==
    /\ options = [maxInputLength |-> Undefined, targetInput |-> FALSE,
                  tutorContainer |-> TRUE, throws |-> {}]
    /\ Constructed
    /\ targetInput = NoTarget
    /\ recording = FALSE
    /\ presses = <<>>
    /\ probe = NoProbe
    /\ sibling = NoSibling
    /\ ttk = NoTtk
    /\ held = {}
    /\ ftk = NoFtk

NextFrame ==
    \/ \E e \in KeyEvents("keydown", FrameCodes) : handlePhysicalKeyDown(e)
    \/ \E e \in KeyEvents("keyup", FrameCodes) : handlePhysicalKeyUp(e)
    \/ handleTutorEnter
    \/ \E v \in FrameInputArgs : setInput(v)
    \/ clearInput
    \/ \E v \in FrameCaretArgs : setCaretPosition(v)

SpecFrame == InitFrame /\ [][NextFrame]_vars

(***************************************************************************)
(* The life of an instance: events and clicks before and after destroy,    *)
(* and a new keyboard built in the container of the destroyed one.         *)
(***************************************************************************)
LifeKeys == {"a", "Backspace"}
LifeCodes == {"KeyA", "ShiftLeft"}

InitLife ==
    /\ options \in [maxInputLength : {Undefined}, targetInput : {FALSE},
                    tutorContainer : BOOLEAN, throws : {{}}]
    /\ Constructed
    /\ targetInput = NoTarget
    /\ recording = FALSE
    /\ presses = <<>>
    /\ probe = NoProbe
    /\ sibling = NoSibling
    /\ ttk = NoTtk
    /\ held = {}
    /\ ftk = NoFtk

NextLife ==
    \/ \E rc \in CellsOf(LifeKeys) : ClickKey(rc[1], rc[2])
    \/ \E e \in KeyEvents("keydown", LifeCodes) : handlePhysicalKeyDown(e)
    \/ \E e \in KeyEvents("keyup", LifeCodes) : handlePhysicalKeyUp(e)
    \/ handleTutorEnter
    \/ handleTutorLeave
    \/ destroy
    \/ RebuildInContainer
    \/ \E e \in KeyEvents("keydown", LifeCodes) \cup KeyEvents("keyup", LifeCodes) :
          UnheardKeyEvent(e)
    \/ \E type \in {"mouseenter", "mouseleave"} : UnheardMouseEvent(type)

SpecLife == InitLife /\ [][NextLife]_vars

(***************************************************************************)
(* The capture scope: instances with and without a tutor container, the    *)
(* pointer entering and leaving it, and hardware events of character,      *)
(* modifier and unmapped keys in and out of tutor mode.                    *)
(***************************************************************************)
ScopeCodes == {"KeyA", "ShiftLeft", "CapsLock", "F1"}

InitScope ==
    /\ options \in [maxInputLength : {Undefined}, targetInput : {FALSE},
                    tutorContainer : BOOLEAN, throws : {{}}]
    /\ Constructed
    /\ targetInput = NoTarget
    /\ recording = FALSE
    /\ presses = <<>>
    /\ probe = NoProbe
    /\ sibling = NoSibling
    /\ ttk = NoTtk
    /\ held = {}
    /\ ftk = NoFtk

NextScope ==
    \/ \E rc \in CellsOf({"a"}) : ClickKey(rc[1], rc[2])
    \/ \E e \in KeyEvents("keydown", ScopeCodes) : handlePhysicalKeyDown(e)
    \/ \E e \in KeyEvents("keyup", ScopeCodes) : handlePhysicalKeyUp(e)
    \/ handleTutorEnter
    \/ handleTutorLeave

SpecScope == InitScope /\ [][NextScope]_vars

(***************************************************************************)
(* Instances whose subscriber callbacks throw: none of them, one of them,  *)
(* or all of them.                                                         *)
(***************************************************************************)
Subscribers ==
    {"onKeyPress", "onStateChange", "onChange", "onKeyRelease", "onTutorModeChange"}

CallbackKeys == {"a", "Backspace", "CapsLock"}
CallbackCodes == {"KeyA", "ShiftLeft"}
CallbackInputArgs == {Str(PatternText(n)) : n \in {1, MAX_INPUT_LENGTH}}
CallbackCaretArgs == {Num(0), Num(1)}

InitCallbacks ==
    /\ options \in [maxInputLength : {Undefined}, targetInput : {FALSE},
                    tutorContainer : {TRUE},
                    throws : {{}, Subscribers} \cup {{c} : c \in Subscribers}]
    /\ Constructed
    /\ targetInput = NoTarget
    /\ recording = FALSE
    /\ presses = <<>>
    /\ probe = NoProbe
    /\ sibling = NoSibling
    /\ ttk = NoTtk
    /\ held = {}
    /\ ftk = NoFtk

NextCallbacks ==
    \/ \E rc \in CellsOf(CallbackKeys) : ClickKey(rc[1], rc[2])
    \/ \E e \in KeyEvents("keydown", CallbackCodes) : handlePhysicalKeyDown(e)
    \/ \E e \in KeyEvents("keyup", CallbackCodes) : handlePhysicalKeyUp(e)
    \/ handleTutorEnter
    \/ handleTutorLeave
    \/ \E v \in CallbackInputArgs : setInput(v)
    \/ clearInput
    \/ \E v \in CallbackCaretArgs : setCaretPosition(v)

SpecCallbacks == InitCallbacks /\ [][NextCallbacks]_vars

(***************************************************************************)
(* Two instances constructed on the same document.  The variable sibling   *)
(* holds the second one: its state, its capture scope, and how its tutor   *)
(* container lies to that of the first instance: the same element, an      *)
(* element nested in it, or an element apart from it.  Both instances have *)
(* their keydown and keyup listeners on the one document.                  *)
(***************************************************************************)
Placements == {"same", "nested", "apart"}

\* the sibling after its construction
SiblingConstructed(placement) ==
    [placement |-> placement, state |-> createKeyboardState,
     isTutorMode |-> FALSE, pointer |-> "outside"]

SiblingRun == RunOf(sibling.state, sibling.isTutorMode, NoTarget)

\* where the pointer can be: inside the first instance's tutor container
\* (inA) and inside the sibling's (inB)
PointerCanBe(inA, inB) ==
    CASE sibling.placement = "same" -> inA = inB
      [] sibling.placement = "nested" -> inB => inA
      [] sibling.placement = "apart" -> ~(inA /\ inB)

\* the run of an instance's mouse listeners when the pointer moves
PointerRun(opts, r, wasIn, isIn) ==
    IF ~wasIn /\ isIn THEN handleTutorEnterRun(opts, r)
    ELSE IF wasIn /\ ~isIn THEN handleTutorLeaveRun(opts, r)
    ELSE r

\* the pointer moves: mouseenter and mouseleave reach the listeners of the
\* containers it enters and leaves
PointerMoves(inA, inB) ==
    LET wasInA == pointer = "inside"
        wasInB == sibling.pointer = "inside"
        rB == PointerRun(options, SiblingRun, wasInB, inB)
    IN  /\ sibling.placement \in Placements
        /\ PointerCanBe(inA, inB)
        /\ <<inA, inB>> # <<wasInA, wasInB>>
        /\ Commit(PointerRun(options, Current, wasInA, inA))
        /\ pointer' = IF inA THEN "inside" ELSE "outside"
        /\ sibling' = [sibling EXCEPT !.state = rB.state,
                                      !.isTutorMode = rB.isTutorMode,
                                      !.pointer = IF inB THEN "inside" ELSE "outside"]
        /\ lastOp' = Op("pointer", "", Undefined, FALSE)
        /\ UNCHANGED <<options, dom, history, probe, ttk, held, ftk>>

\* a hardware key event on the document: the listener of each instance runs
DocumentKeyEvent(event) ==
    LET rA == IF event.type = "keydown"
              THEN handlePhysicalKeyDownRun(options, Current, event)
              ELSE handlePhysicalKeyUpRun(options, Current, event)
        rB == IF event.type = "keydown"
              THEN handlePhysicalKeyDownRun(options, SiblingRun, event)
              ELSE handlePhysicalKeyUpRun(options, SiblingRun, event)
    IN  /\ sibling.placement \in Placements
        /\ DocumentListeners \subseteq listeners
        /\ Commit(rA)
        /\ sibling' = [sibling EXCEPT !.state = rB.state]
        /\ lastOp' = Op(event.type, "", Undefined, FALSE)
        /\ UNCHANGED <<options, dom, pointer, history, probe, ttk, held, ftk>>

\* the hardware events of the two-instance runs: CapsLock is off
SiblingEvents ==
    {e \in KeyEvents("keydown", {"KeyA", "Backspace"}) \cup KeyEvents("keyup", {"KeyA"}) :
        ~e.capsLock}

InitSiblings ==
    /\ options = [maxInputLength |-> Undefined, targetInput |-> FALSE,
                  tutorContainer |-> TRUE, throws |-> {}]
    /\ Constructed
    /\ targetInput = NoTarget
    /\ recording = FALSE
    /\ presses = <<>>
    /\ probe = NoProbe
    /\ sibling \in {SiblingConstructed(p) : p \in Placements}
    /\ ttk = NoTtk
    /\ held = {}
    /\ ftk = NoFtk

NextSiblings ==
    \/ \E inA, inB \in BOOLEAN : PointerMoves(inA, inB)
    \/ \E e \in SiblingEvents : DocumentKeyEvent(e)

SpecSiblings == InitSiblings /\ [][NextSiblings]_vars

(***************************************************************************)
(* The class variant TypingTutorKeyboard (src/unnamed/part_004).  The      *)
(* variable ttk holds one instance: its state object, the listeners it     *)
(* has on the document, whether its keys are rendered, and the callbacks   *)
(* its last operation invoked.  A listener is a function object; every     *)
(* call of Function.prototype.bind creates a new one, named here by the    *)
(* number of the bind call.                                                *)
(***************************************************************************)
ttk_createState ==
    [input |-> <<>>, caretPosition |-> 0, isShiftPressed |-> FALSE,
     isLeftShiftPressed |-> FALSE, isRightShiftPressed |-> FALSE,
     isCapsLockOn |-> FALSE, isCtrlPressed |-> FALSE, isAltPressed |-> FALSE]

\* method.bind(this), as the n-th call of bind
Bound(method, n) == [method |-> method, bound |-> n]

\* the function detectCapsLock of detectInitialCapsLockState
DetectCapsLock == [method |-> "detectCapsLock", bound |-> 0]

Registration(type, fn) == [type |-> type, fn |-> fn]

\* document.removeEventListener(type, fn): removes the registration of
\* that very function object, if there is one
removeEventListener(registrations, type, fn) ==
    registrations \ {Registration(type, fn)}

\* the constructor: detectInitialCapsLockState, render, setupEventListeners
ttk_constructor ==
    [constructed |-> TRUE,
     state |-> ttk_createState,
     documentListeners |->
        {Registration("keydown", DetectCapsLock),
         Registration("keyup", DetectCapsLock),
         Registration("keydown", Bound("handlePhysicalKeyDown", 1)),
         Registration("keyup", Bound("handlePhysicalKeyUp", 2))},
     binds |-> 2,
     rendered |-> TRUE,
     destroyed |-> FALSE,
     calls |-> <<>>,
     lastOp |-> "construct"]

\* physicalKeyMap of the class: the same codes and keys as getPhysicalKeyMap
ttk_physicalKeyMapGet(code) == physicalKeyMapGet(code)

\* transformCharacter(char) of the class
ttk_transformCharacter(char, st) ==
    IF st.isShiftPressed = st.isCapsLockOn THEN toLowerCase(char)
    ELSE IF IsLetter(char) THEN toUpperCase(char)
    ELSE IF char \in ShiftMapped THEN SHIFT_MAP(char) ELSE char

\* detectCapsLock(e): the first key event sets isCapsLockOn and notifies,
\* then both registrations of detectCapsLock are removed
ttk_detectCapsLock(t, event) ==
    LET t1 == IF event.capsLock # t.state.isCapsLockOn
              THEN [t EXCEPT !.state.isCapsLockOn = event.capsLock,
                             !.calls = Append(@, "onStateChange")]
              ELSE t
    IN  [t1 EXCEPT !.documentListeners =
            removeEventListener(
               removeEventListener(@, "keydown", DetectCapsLock),
               "keyup", DetectCapsLock)]

\* updateModifierStates(event): the state object is changed in place, the
\* keys are rendered again when shift or CapsLock changed
ttk_updateModifierStates(t, event) ==
    LET prev == t.state
        s1 == [prev EXCEPT !.isShiftPressed = event.shiftKey]
        s2 == IF event.type = "keydown" /\ event.code = "ShiftLeft"
              THEN [s1 EXCEPT !.isLeftShiftPressed = TRUE]
              ELSE IF event.type = "keydown" /\ event.code = "ShiftRight"
              THEN [s1 EXCEPT !.isRightShiftPressed = TRUE]
              ELSE IF event.type = "keyup" /\ event.code = "ShiftLeft"
              THEN [s1 EXCEPT !.isLeftShiftPressed = FALSE]
              ELSE IF event.type = "keyup" /\ event.code = "ShiftRight"
              THEN [s1 EXCEPT !.isRightShiftPressed = FALSE]
              ELSE s1
        s3 == [s2 EXCEPT !.isCtrlPressed = event.ctrlKey,
                         !.isAltPressed = event.altKey,
                         !.isCapsLockOn = event.capsLock]
        layoutChanged == prev.isShiftPressed # s3.isShiftPressed
                           \/ prev.isCapsLockOn # s3.isCapsLockOn
        notify == \/ layoutChanged
                  \/ s3.isLeftShiftPressed #
                       (event.code = "ShiftLeft" /\ event.type = "keydown")
                  \/ s3.isRightShiftPressed #
                       (event.code = "ShiftRight" /\ event.type = "keydown")
    IN  [t EXCEPT !.state = s3,
                  !.rendered = IF layoutChanged THEN TRUE ELSE @,
                  !.calls = IF notify THEN Append(@, "onStateChange") ELSE @]

\* handleKeyPress(key, event) of the class
ttk_handleKeyPress(t, key) ==
    LET t1 == [t EXCEPT !.calls = Append(@, "onKeyPress")]
        st == t1.state
        edited(newInput, newCaret) ==
            [t1 EXCEPT !.state.input = newInput,
                       !.state.caretPosition = newCaret,
                       !.calls = Append(@, "onChange")]
    IN  CASE key = "Backspace" ->
               IF Len(st.input) > 0 /\ st.caretPosition > 0
               THEN edited(substring(st.input, 0, st.caretPosition - 1)
                              \o substringFrom(st.input, st.caretPosition),
                           st.caretPosition - 1)
               ELSE t1
          [] key = "Enter" -> edited(st.input \o <<"\n">>, st.caretPosition + 1)
          [] key = "Space" -> edited(st.input \o <<" ">>, st.caretPosition + 1)
          [] key = "Tab" -> edited(st.input \o <<"\t">>, st.caretPosition + 1)
          [] key \in ModifierKeys -> t1
          [] OTHER ->
               IF IsSingleChar(key)
               THEN edited(substring(st.input, 0, st.caretPosition)
                              \o <<ttk_transformCharacter(key, st)>>
                              \o substringFrom(st.input, st.caretPosition),
                           st.caretPosition + 1)
               ELSE t1

\* handlePhysicalKeyDown(event) of the class
ttk_handlePhysicalKeyDown(t, event) ==
    IF event.code \notin MappedCodes THEN t
    ELSE ttk_handleKeyPress(ttk_updateModifierStates(t, event),
                            ttk_physicalKeyMapGet(event.code))

\* handlePhysicalKeyUp(event) of the class
ttk_handlePhysicalKeyUp(t, event) ==
    IF event.code \notin MappedCodes THEN t
    ELSE [ttk_updateModifierStates(t, event) EXCEPT
             !.calls = Append(@, "onKeyRelease")]

\* the document dispatches a key event to the listeners registered for its
\* type, in the order of their registration: detectCapsLock first
ttk_dispatch(t, event) ==
    LET heard(fn) == Registration(event.type, fn) \in t.documentListeners
        t0 == [t EXCEPT !.calls = <<>>, !.lastOp = event.type]
        t1 == IF heard(DetectCapsLock) THEN ttk_detectCapsLock(t0, event) ELSE t0
        t2 == IF event.type = "keydown" /\ heard(Bound("handlePhysicalKeyDown", 1))
              THEN ttk_handlePhysicalKeyDown(t1, event)
              ELSE t1
    IN  IF event.type = "keyup" /\ heard(Bound("handlePhysicalKeyUp", 2))
        THEN ttk_handlePhysicalKeyUp(t2, event)
        ELSE t2

\* destroy() removing the functions that setupEventListeners registered
ttk_destroy_RemovesRegistered(t) ==
    [t EXCEPT !.documentListeners =
                 removeEventListener(
                    removeEventListener(@, "keydown", Bound("handlePhysicalKeyDown", 1)),
                    "keyup", Bound("handlePhysicalKeyUp", 2)),
              !.binds = @ + 2,
              !.rendered = FALSE,
              !.destroyed = TRUE,
              !.calls = <<>>,
              !.lastOp = "destroy"]

\* destroy(): removeEventListener is handed two functions newly created by
\* bind; the container is emptied and the registry cleared
ttk_destroy(t) ==
    [t EXCEPT !.documentListeners =
                 removeEventListener(
                    removeEventListener(@, "keydown",
                       Bound("handlePhysicalKeyDown", t.binds + 1)),
                    "keyup", Bound("handlePhysicalKeyUp", t.binds + 2)),
              !.binds = @ + 2,
              !.rendered = FALSE,
              !.destroyed = TRUE,
              !.calls = <<>>,
              !.lastOp = "destroy"]

\* the hardware events handed to the class instance
TtkKeyEvents ==
    [type : {"keydown", "keyup"}, code : {"KeyA", "Backspace", "ShiftLeft", "F1"},
     shiftKey : BOOLEAN, capsLock : BOOLEAN, ctrlKey : {FALSE}, altKey : {FALSE}]

TtkKeyEvent(event) ==
    /\ ttk.constructed
    /\ Len(ttk.state.input) < MaxTtkInput \/ event.code # "KeyA"
    /\ ttk' = ttk_dispatch(ttk, event)
    /\ UNCHANGED <<options, instance, dom, observed, pointer, history, probe, sibling, held, ftk>>

\* a click on a rendered key element
TtkClick(key) ==
    /\ ttk.constructed
    /\ ttk.rendered
    /\ Len(ttk.state.input) < MaxTtkInput \/ key # "a"
    /\ ttk' = ttk_handleKeyPress([ttk EXCEPT !.calls = <<>>, !.lastOp = "click"], key)
    /\ UNCHANGED <<options, instance, dom, observed, pointer, history, probe, sibling, held, ftk>>

TtkDestroy ==
    /\ ttk.constructed
    /\ ttk.binds + 2 <= MaxBinds
    /\ ttk' = ttk_destroy(ttk)
    /\ UNCHANGED <<options, instance, dom, observed, pointer, history, probe, sibling, held, ftk>>

InitClass ==
    /\ options = NoOptions
    /\ Constructed
    /\ targetInput = NoTarget
    /\ recording = FALSE
    /\ presses = <<>>
    /\ probe = NoProbe
    /\ sibling = NoSibling
    /\ ttk = ttk_constructor
    /\ held = {}
    /\ ftk = NoFtk

NextClass ==
    \/ \E e \in TtkKeyEvents : TtkKeyEvent(e)
    \/ \E key \in {"a", "Backspace"} : TtkClick(key)
    \/ TtkDestroy

SpecClass == InitClass /\ [][NextClass]_vars

(***************************************************************************)
(* An instance with a target input.  The target is an element of the host  *)
(* page: the user can edit it directly, and the engine reads it on         *)
(* mouseenter and writes it at the end of handleKeyPress.                   *)
(***************************************************************************)
TargetKeys == {"Backspace"}
TargetInputArgs == {Str(<<"b">>)}

\* what the user leaves in the target: value and selection start
TargetEdits ==
    {[value |-> <<>>, selectionStart |-> 0],
     [value |-> <<"x", "y">>, selectionStart |-> 1]}

\* the hardware events of SpecTarget: the key A, under either CapsLock state
TargetEvents(type) ==
    [type : {type}, code : {"KeyA"}, shiftKey : {FALSE}, capsLock : BOOLEAN]

\* the user edits the target input element directly: value and selection
\* are whatever the user leaves there
UserEditsTarget(edit) ==
    /\ options.targetInput
    /\ targetInput' = edit
    /\ calls' = <<>>
    /\ thrown' = FALSE
    /\ snapshot' = NoSnapshot
    /\ view' = Settled(view)
    /\ lastOp' = Op("userEdit", "", Undefined, FALSE)
    /\ UNCHANGED <<options, state, isTutorMode, dom, pointer, history, others>>

InitTarget ==
    /\ options = [maxInputLength |-> Undefined, targetInput |-> TRUE,
                  tutorContainer |-> TRUE, throws |-> {}]
    /\ Constructed
    /\ targetInput \in TargetEdits
    /\ recording = FALSE
    /\ presses = <<>>
    /\ probe = NoProbe
    /\ sibling = NoSibling
    /\ ttk = NoTtk
    /\ held = {}
    /\ ftk = NoFtk

NextTarget ==
    \/ \E rc \in CellsOf(TargetKeys) : ClickKey(rc[1], rc[2])
    \/ \E e \in TargetEvents("keydown") : handlePhysicalKeyDown(e)
    \/ \E e \in TargetEvents("keyup") : handlePhysicalKeyUp(e)
    \/ handleTutorEnter
    \/ handleTutorLeave
    \/ \E v \in TargetInputArgs : setInput(v)
    \/ clearInput
    \/ setCaretPosition(Num(0))
    \/ \E edit \in TargetEdits : UserEditsTarget(edit)

SpecTarget == InitTarget /\ [][NextTarget]_vars

(***************************************************************************)
(* The modifier flags: clicks on the modifier keys, hardware events of the *)
(* shift keys, of CapsLock, of the Enter key and of an unmapped key,       *)
(* inside and outside the capture scope, and the public methods.           *)
(***************************************************************************)
ModifierClicks == {"Backspace", "CapsLock", "ShiftLeft", "ShiftRight"}
ModifierCodes == {"Enter", "ShiftLeft", "ShiftRight", "CapsLock", "F1"}

InitModifiers ==
    /\ options = [maxInputLength |-> Undefined, targetInput |-> FALSE,
                  tutorContainer |-> TRUE, throws |-> {}]
    /\ Constructed
    /\ targetInput = NoTarget
    /\ recording = FALSE
    /\ presses = <<>>
    /\ probe = NoProbe
    /\ sibling = NoSibling
    /\ ttk = NoTtk
    /\ held = {}
    /\ ftk = NoFtk

NextModifiers ==
    \/ \E rc \in CellsOf(ModifierClicks) : ClickKey(rc[1], rc[2])
    \/ \E e \in KeyEvents("keydown", ModifierCodes) : handlePhysicalKeyDown(e)
    \/ \E e \in KeyEvents("keyup", ModifierCodes) : handlePhysicalKeyUp(e)
    \/ handleTutorEnter
    \/ handleTutorLeave
    \/ setInput(Str(<<"b">>))
    \/ clearInput
    \/ setCaretPosition(Num(0))

SpecModifiers == InitModifiers /\ [][NextModifiers]_vars

(***************************************************************************)
(* The hardware keyboard: the shift keys that are down, and events whose   *)
(* shift flag is true exactly while one of them is down.  The keys go      *)
(* down and up whether or not the instance is capturing.                   *)
(***************************************************************************)
ShiftCodes == {"ShiftLeft", "ShiftRight"}
HeldCodes == ShiftCodes \cup {"Enter"}

\* the event the browser dispatches for a key while the given shift keys
\* are down
HardwareEvent(type, code, down) ==
    [type |-> type, code |-> code, shiftKey |-> down # {}, capsLock |-> FALSE]

\* a key goes down: document keydown, handled by handlePhysicalKeyDown
KeyGoesDown(code) ==
    LET down == held \cup ({code} \cap ShiftCodes)
        event == HardwareEvent("keydown", code, down)
        handled == isTutorMode /\ code \in MappedCodes
        virtualKey == IF handled THEN physicalKeyMapGet(code) ELSE ""
    IN  /\ code \notin held
        /\ "document.keydown" \in listeners
        /\ held' = down
        /\ Commit(handlePhysicalKeyDownRun(options, Current, event))
        /\ IF handled /\ inputChanged(virtualKey) THEN StopRecording
           ELSE UNCHANGED history
        /\ lastOp' = Op("keydown", virtualKey,
                        IF handled THEN event ELSE Undefined, FALSE)
        /\ UNCHANGED <<options, dom, pointer, probe, sibling, ttk, ftk>>

\* a key goes up: document keyup, handled by handlePhysicalKeyUp
KeyGoesUp(code) ==
    LET down == held \ {code}
        event == HardwareEvent("keyup", code, down)
        handled == isTutorMode /\ code \in MappedCodes
    IN  /\ code \in held \/ code \notin ShiftCodes
        /\ "document.keyup" \in listeners
        /\ held' = down
        /\ Commit(handlePhysicalKeyUpRun(options, Current, event))
        /\ lastOp' = Op("keyup", IF handled THEN physicalKeyMapGet(code) ELSE "",
                        IF handled THEN event ELSE Undefined, FALSE)
        /\ UNCHANGED <<options, dom, pointer, history, probe, sibling, ttk, ftk>>

InitHeld ==
    /\ options = [maxInputLength |-> Undefined, targetInput |-> FALSE,
                  tutorContainer |-> TRUE, throws |-> {}]
    /\ Constructed
    /\ targetInput = NoTarget
    /\ recording = FALSE
    /\ presses = <<>>
    /\ probe = NoProbe
    /\ sibling = NoSibling
    /\ ttk = NoTtk
    /\ held = {}
    /\ ftk = NoFtk

NextHeld ==
    \/ \E code \in HeldCodes : KeyGoesDown(code)
    \/ \E code \in HeldCodes : KeyGoesUp(code)
    \/ handleTutorEnter
    \/ handleTutorLeave

SpecHeld == InitHeld /\ [][NextHeld]_vars

(***************************************************************************)
(* Construction: createKidsKeyboard(options) on a page that holds no       *)
(* instance yet.  The container option is undefined, a selector that is    *)
(* not valid, a selector that matches no element, an object that is not an *)
(* HTMLElement, or an HTMLElement.                                         *)
(***************************************************************************)
ContainerOptions ==
    {"undefined", "selector-invalid", "selector-unmatched", "object", "HTMLElement"}

ContainerArg(container) == [type |-> container, str |-> <<>>, num |-> 0]

\* the page before any instance is constructed
PageLoaded ==
    /\ state = Null
    /\ isTutorMode = FALSE
    /\ keyElements = {}
    /\ containerKeys = FALSE
    /\ listeners = {}
    /\ lastOp = Op("load", "", Undefined, FALSE)
    /\ calls = <<>>
    /\ thrown = FALSE
    /\ snapshot = NoSnapshot
    /\ view = RenderedView
    /\ pointer = "outside"

\* createKidsKeyboard registering the document listeners before it looks
\* for the container
createKidsKeyboardOn_ListensFirst(opts, page, container) ==
    IF container # "HTMLElement"
    THEN [page EXCEPT !.thrown = TRUE,
                      !.listeners = @ \cup DocumentListeners]
    ELSE [thrown |-> FALSE,
          state |-> createKeyboardState,
          isTutorMode |-> FALSE,
          keyElements |-> renderKeyboard,
          containerKeys |-> TRUE,
          view |-> RenderedView,
          listeners |-> page.listeners \cup {ClickListener}
                            \cup setupEventListeners(opts)]

\* createKidsKeyboard(options) on a page [thrown, state, isTutorMode,
\* keyElements, containerKeys, view, listeners]: the three checks of the container
\* throw before render() and setupEventListeners()
createKidsKeyboardOn(opts, page, container) ==
    IF container = "selector-invalid"
    THEN [page EXCEPT !.thrown = TRUE]  \* querySelector throws, rethrown
    ELSE IF container \in {"undefined", "selector-unmatched"}
    THEN [page EXCEPT !.thrown = TRUE]  \* !container
    ELSE IF container # "HTMLElement"
    THEN [page EXCEPT !.thrown = TRUE]  \* !(container instanceof HTMLElement)
    ELSE [thrown |-> FALSE,
          state |-> createKeyboardState,
          isTutorMode |-> FALSE,
          keyElements |-> renderKeyboard,
          containerKeys |-> TRUE,
          view |-> RenderedView,
          listeners |-> page.listeners \cup {ClickListener}
                            \cup setupEventListeners(opts)]

createKidsKeyboard(container) ==
    LET page == [thrown |-> FALSE, state |-> state, isTutorMode |-> isTutorMode,
                 keyElements |-> keyElements, containerKeys |-> containerKeys,
                 view |-> Settled(view), listeners |-> listeners]
        built == createKidsKeyboardOn(options, page, container)
    IN  /\ state = Null
        /\ state' = built.state
        /\ isTutorMode' = built.isTutorMode
        /\ keyElements' = built.keyElements
        /\ containerKeys' = built.containerKeys
        /\ listeners' = built.listeners
        /\ thrown' = built.thrown
        /\ calls' = <<>>
        /\ snapshot' = NoSnapshot
        /\ view' = built.view
        /\ lastOp' = Op("construct", "", ContainerArg(container), built.thrown)
        /\ UNCHANGED <<options, targetInput, pointer, history, others>>

ConstructKeys == {"a", "Backspace"}
ConstructCodes == {"KeyA", "ShiftLeft"}

InitConstruct ==
    /\ options \in [maxInputLength : {Undefined}, targetInput : {FALSE},
                    tutorContainer : BOOLEAN, throws : {{}}]
    /\ PageLoaded
    /\ targetInput = NoTarget
    /\ recording = FALSE
    /\ presses = <<>>
    /\ probe = NoProbe
    /\ sibling = NoSibling
    /\ ttk = NoTtk
    /\ held = {}
    /\ ftk = NoFtk

NextConstruct ==
    \/ \E container \in ContainerOptions : createKidsKeyboard(container)
    \/ \E rc \in CellsOf(ConstructKeys) : ClickKey(rc[1], rc[2])
    \/ \E e \in KeyEvents("keydown", ConstructCodes) : handlePhysicalKeyDown(e)
    \/ \E e \in KeyEvents("keyup", ConstructCodes) : handlePhysicalKeyUp(e)
    \/ handleTutorEnter
    \/ handleTutorLeave
    \/ \E e \in KeyEvents("keydown", {"KeyA"}) \cup KeyEvents("keyup", {"KeyA"}) :
           UnheardKeyEvent(e)
    \/ \E type \in {"mouseenter", "mouseleave"} : UnheardMouseEvent(type)

SpecConstruct == InitConstruct /\ [][NextConstruct]_vars

(***************************************************************************)
(* The functional variant createTypingTutorKeyboard                        *)
(* (src/_fap/typing_tutor/typing-tutor-keyboard-functional.js).  The       *)
(* factory keeps the store in its variable state; createEventHandlers is   *)
(* called once with the value that variable has at construction, and the   *)
(* three handlers read that parameter (captured) from then on.             *)
(***************************************************************************)
ftk_getCurrentLayout(st) ==
    IF st.isShiftPressed # st.isCapsLockOn
    THEN KEYBOARD_LAYOUTS.shift
    ELSE KEYBOARD_LAYOUTS.default

\* renderKeyboard: the container is emptied, the registry cleared and
\* filled with the names of the keys of the current layout
ftk_renderKeyboard(st) ==
    LET layout == ftk_getCurrentLayout(st)
    IN  UNION {{getKeyMapName(layout[r][k]) : k \in DOMAIN layout[r]} :
                   r \in DOMAIN layout}

\* transformCharacter(char, state) of the functional variant
ftk_transformCharacter(char, st) ==
    LET shouldUseShift == st.isShiftPressed # st.isCapsLockOn
    IN  IF ~shouldUseShift THEN toLowerCase(char)
        ELSE IF IsLetter(char) THEN toUpperCase(char)
        ELSE IF char \in ShiftMapped THEN SHIFT_MAP(char) ELSE char

\* updateInputAtCaret and deleteAtCaret of the functional variant: no
\* validation of the input or of the caret
ftk_updateInputAtCaret(input, caretPosition, newChar) ==
    [newInput |-> substring(input, 0, caretPosition) \o <<newChar>>
                     \o substringFrom(input, caretPosition),
     newCaretPosition |-> JsAdd(caretPosition, 1)]

ftk_deleteAtCaret(input, caretPosition) ==
    IF JsLe(caretPosition, 0)
    THEN [newInput |-> input, newCaretPosition |-> caretPosition]
    ELSE [newInput |-> substring(input, 0, JsAdd(caretPosition, -1))
                          \o substringFrom(input, caretPosition),
          newCaretPosition |-> JsAdd(caretPosition, -1)]

\* updateModifierStates(currentState, event): the statements of
\* updateModifierStatesInternal, on events that have getModifierState
ftk_updateModifierStates(currentState, event) ==
    updateModifierStatesInternal(currentState, event)

\* createTypingTutorKeyboard(options): the store, the parameter state of
\* createEventHandlers, the first render and the document listeners
ftk_createTypingTutorKeyboard ==
    [constructed |-> TRUE,
     state |-> createKeyboardState,
     captured |-> createKeyboardState,
     keyElements |-> ftk_renderKeyboard(createKeyboardState),
     rerendered |-> FALSE,
     typed |-> 0,
     calls |-> <<>>,
     lastOp |-> "construct"]

\* setState(newState) of the factory: render() when the layout changes
ftk_setState(f, newState) ==
    LET prevState == f.state
        layoutChanges == \/ prevState.isShiftPressed # newState.isShiftPressed
                         \/ prevState.isCapsLockOn # newState.isCapsLockOn
    IN  [f EXCEPT !.state = newState,
                  !.keyElements = IF layoutChanges THEN ftk_renderKeyboard(newState)
                                  ELSE @,
                  !.rerendered = @ \/ layoutChanges,
                  !.calls = Append(@, "onStateChange")]

\* handleKeyPress(key, event) of createEventHandlers: state is the
\* parameter of createEventHandlers
ftk_handleKeyPress(f, key) ==
    LET state_ == f.captured
        f1 == [f EXCEPT !.calls = Append(@, "onKeyPress")]
        edit == CASE key = "Backspace" -> ftk_deleteAtCaret(state_.input, state_.caretPosition)
                  [] key = "Enter" -> ftk_updateInputAtCaret(state_.input, state_.caretPosition, "\n")
                  [] key = "Space" -> ftk_updateInputAtCaret(state_.input, state_.caretPosition, " ")
                  [] key = "Tab" -> ftk_updateInputAtCaret(state_.input, state_.caretPosition, "\t")
                  [] OTHER ->
                       IF IsSingleChar(key)
                       THEN ftk_updateInputAtCaret(state_.input, state_.caretPosition,
                                                   ftk_transformCharacter(key, state_))
                       ELSE [newInput |-> state_.input,
                             newCaretPosition |-> state_.caretPosition]
        newState == [state_ EXCEPT !.input = edit.newInput,
                                   !.caretPosition = edit.newCaretPosition]
        f2 == ftk_setState(f1, newState)
    IN  IF newState.input # state_.input
        THEN [f2 EXCEPT !.calls = Append(@, "onChange")]
        ELSE f2

\* handlePhysicalKeyDown(event) of createEventHandlers
ftk_handlePhysicalKeyDown(f, event) ==
    IF event.code \notin MappedCodes THEN f
    ELSE LET virtualKey == physicalKeyMapGet(event.code)
             newState == ftk_updateModifierStates(f.captured, event)
         IN  ftk_handleKeyPress(ftk_setState(f, newState), virtualKey)

\* handlePhysicalKeyUp(event) of createEventHandlers
ftk_handlePhysicalKeyUp(f, event) ==
    IF event.code \notin MappedCodes THEN f
    ELSE LET newState == ftk_updateModifierStates(f.captured, event)
         IN  [ftk_setState(f, newState) EXCEPT !.calls = Append(@, "onKeyRelease")]

\* setInput(input) and clearInput() of the public API: state is the store
ftk_setInput(f, input) ==
    [ftk_setState(f, [f.state EXCEPT !.input = input, !.caretPosition = Len(input)])
        EXCEPT !.calls = Append(@, "onChange")]

ftk_clearInput(f) ==
    [ftk_setState(f, [f.state EXCEPT !.input = <<>>, !.caretPosition = 0])
        EXCEPT !.calls = Append(@, "onChange")]

\* the operation starts: what the previous one left to observe is cleared
FtkBegin(op) == [ftk EXCEPT !.calls = <<>>, !.rerendered = FALSE, !.lastOp = op]

\* typed counts the character presses since the buffer was empty by
\* construction or clearInput; any other edit ends the count (-1)
FtkTyped(f, key) ==
    [f EXCEPT !.typed = IF IsSingleChar(key) /\ @ >= 0 THEN @ + 1
                        ELSE IF key \in ModifierKeys THEN @
                        ELSE -1]

FtkCodes == {"KeyA", "Digit1", "ShiftLeft", "F1"}

FtkKeyDown(event) ==
    /\ ftk.constructed
    /\ ftk.typed < MaxFtkPresses
    /\ Len(ftk.state.input) < MaxFtkPresses
    /\ ftk' = IF event.code \in MappedCodes
              THEN FtkTyped(ftk_handlePhysicalKeyDown(FtkBegin("keydown"), event),
                            physicalKeyMapGet(event.code))
              ELSE ftk_handlePhysicalKeyDown(FtkBegin("keydown"), event)
    /\ UNCHANGED <<options, instance, dom, observed, pointer, history, probe, sibling,
                   ttk, held>>

FtkKeyUp(event) ==
    /\ ftk.constructed
    /\ ftk' = ftk_handlePhysicalKeyUp(FtkBegin("keyup"), event)
    /\ UNCHANGED <<options, instance, dom, observed, pointer, history, probe, sibling,
                   ttk, held>>

\* a click on a key element of the rendered grid
FtkClick(key) ==
    /\ ftk.constructed
    /\ getKeyMapName(key) \in ftk.keyElements
    /\ ftk.typed < MaxFtkPresses
    /\ Len(ftk.state.input) < MaxFtkPresses
    /\ ftk' = FtkTyped(ftk_handleKeyPress(FtkBegin("click"), key), key)
    /\ UNCHANGED <<options, instance, dom, observed, pointer, history, probe, sibling,
                   ttk, held>>

FtkSetInput(input) ==
    /\ ftk.constructed
    /\ ftk' = [ftk_setInput(FtkBegin("setInput"), input) EXCEPT !.typed = -1]
    /\ UNCHANGED <<options, instance, dom, observed, pointer, history, probe, sibling,
                   ttk, held>>

FtkClearInput ==
    /\ ftk.constructed
    /\ ftk' = [ftk_clearInput(FtkBegin("clearInput")) EXCEPT !.typed = 0]
    /\ UNCHANGED <<options, instance, dom, observed, pointer, history, probe, sibling,
                   ttk, held>>

InitFunctional ==
    /\ options = NoOptions
    /\ Constructed
    /\ targetInput = NoTarget
    /\ recording = FALSE
    /\ presses = <<>>
    /\ probe = NoProbe
    /\ sibling = NoSibling
    /\ ttk = NoTtk
    /\ held = {}
    /\ ftk = ftk_createTypingTutorKeyboard

NextFunctional ==
    \/ \E e \in KeyEvents("keydown", FtkCodes) : FtkKeyDown(e)
    \/ \E e \in KeyEvents("keyup", FtkCodes) : FtkKeyUp(e)
    \/ \E key \in {"a", "1", "Backspace"} : FtkClick(key)
    \/ \E input \in {<<"b">>, <<"b", "c">>} : FtkSetInput(input)
    \/ FtkClearInput

SpecFunctional == InitFunctional /\ [][NextFunctional]_vars

\* transformCharacter of the three variants on one character and one
\* modifier state
ApplyTransformCharacterVariants ==
    /\ probe.fn = "transformCharacterVariants"
    /\ ~probe.done
    /\ LET st == [isShiftPressed |-> probe.shift, isCapsLockOn |-> probe.caps]
       IN  probe' = [probe EXCEPT
                !.done = TRUE,
                !.kids = transformCharacter(probe.char, st),
                !.functional = ftk_transformCharacter(probe.char, st),
                !.class = ttk_transformCharacter(probe.char, st)]
    /\ UNCHANGED <<options, instance, dom, observed, pointer, history, sibling, ttk, held, ftk>>

InitVariants ==
    /\ Idle
    /\ probe \in [fn : {"transformCharacterVariants"}, char : ProbeChars,
                  shift : BOOLEAN, caps : BOOLEAN, done : {FALSE},
                  kids : {""}, functional : {""}, class : {""}]

SpecVariants == InitVariants /\ [][ApplyTransformCharacterVariants]_vars

(***************************************************************************)
(* Hardware typing inside the capture scope: a letter key, a symbol key    *)
(* and a shift key, under every report of shift and CapsLock.              *)
(***************************************************************************)
KeydownCodes == {"KeyA", "Digit1", "ShiftLeft"}

InitKeydown ==
    /\ options = [NoOptions EXCEPT !.tutorContainer = TRUE]
    /\ Constructed
    /\ targetInput = NoTarget
    /\ recording = FALSE
    /\ presses = <<>>
    /\ probe = NoProbe
    /\ sibling = NoSibling
    /\ ttk = NoTtk
    /\ held = {}
    /\ ftk = NoFtk

NextKeydown ==
    \/ \E e \in KeyEvents("keydown", KeydownCodes) : handlePhysicalKeyDown(e)
    \/ \E e \in KeyEvents("keyup", KeydownCodes) : handlePhysicalKeyUp(e)
    \/ handleTutorEnter
    \/ handleTutorLeave

SpecKeydown == InitKeydown /\ [][NextKeydown]_vars

\* getCurrentLayout(state) of kids-keyboard.js; the class shift-layout that
\* updateLayoutClass toggles shows the same grid
getCurrentLayout(st) ==
    LET shouldUseShift == st.isShiftPressed # st.isCapsLockOn
    IN  IF shouldUseShift THEN KEYBOARD_LAYOUTS.shift ELSE KEYBOARD_LAYOUTS.default

\* the cells of the grid whose key is one character
CharacterCells == {rc \in Cells : IsSingleChar(KEYBOARD_LAYOUTS.default[rc[1]][rc[2]])}

\* the glyph shown at a cell and the character a press of its key inserts
ApplyGetCurrentLayout ==
    /\ probe.fn = "getCurrentLayout"
    /\ ~probe.done
    /\ LET st == [isShiftPressed |-> probe.shift, isCapsLockOn |-> probe.caps]
           r == probe.cell[1]
           c == probe.cell[2]
       IN  probe' = [probe EXCEPT
                !.done = TRUE,
                !.glyph = getCurrentLayout(st)[r][c],
                !.typed = transformCharacter(KEYBOARD_LAYOUTS.default[r][c], st)]
    /\ UNCHANGED <<options, instance, dom, observed, pointer, history, sibling, ttk, held, ftk>>

InitDisplay ==
    /\ Idle
    /\ probe \in [fn : {"getCurrentLayout"}, cell : CharacterCells,
                  shift : BOOLEAN, caps : BOOLEAN, done : {FALSE},
                  glyph : {""}, typed : {""}]

SpecDisplay == InitDisplay /\ [][ApplyGetCurrentLayout]_vars

(***************************************************************************)
(* Subscribers that read getInput() in every callback, and a subscriber    *)
(* of onStateChange that calls setInput or clearInput of the instance.     *)
(* probe.onStateChange is what that subscriber does on the notification    *)
(* of a key press; on the notification its own call causes it does         *)
(* nothing more.  probe.trace lists the callbacks of the last operation    *)
(* with their text argument and the value getInput() returned in them.     *)
(***************************************************************************)
Reactions == {"none", "setInput", "clearInput"}
ReactionText == <<"b">>

\* a subscriber function runs: safeCallback invokes it, it reads getInput()
Notified(opts, o, callback, text) ==
    [run |-> safeCallback(opts, o.run, callback),
     trace |-> Append(o.trace, [callback |-> callback, text |-> text,
                                getInput |-> o.run.state.input])]

\* setState(newState) with the subscriber of onStateChange doing nothing
setStateSubscribed(opts, o, newState) ==
    LET r == setState(opts, o.run, newState)
    IN  [run |-> r,
         trace |-> Append(o.trace, [callback |-> "onStateChange", text |-> newState.input,
                                    getInput |-> r.state.input])]

\* setInput(input) and clearInput() called from inside a subscriber
setInputSubscribed(opts, o, input) ==
    LET validInput == validateInput(input)
        newState == [o.run.state EXCEPT
                        !.input = validInput,
                        !.caretPosition =
                            validateCaretNumber(Len(validInput), Len(validInput))]
    IN  Notified(opts, setStateSubscribed(opts, o, newState), "onChange", validInput)

clearInputSubscribed(opts, o) ==
    Notified(opts,
        setStateSubscribed(opts, o, [o.run.state EXCEPT !.input = <<>>, !.caretPosition = 0]),
        "onChange", <<>>)

\* setState(newState) whose onStateChange subscriber reacts before it returns
setStateReentered(opts, o, newState, reaction) ==
    LET o1 == setStateSubscribed(opts, o, newState)
    IN  CASE reaction = "setInput" -> setInputSubscribed(opts, o1, ReactionText)
          [] reaction = "clearInput" -> clearInputSubscribed(opts, o1)
          [] OTHER -> o1

\* handleKeyPress(key, event) of a constructed instance with these subscribers
handleKeyPressSubscribed(opts, o, key, reaction) ==
    LET o1 == Notified(opts, o, "onKeyPress", <<>>)
        newState == handleKeyPressState(o1.run.state, key)
        o2 == setStateReentered(opts, o1, newState, reaction)
    IN  IF inputChanged(key)
        THEN Notified(opts,
                 [o2 EXCEPT !.run = syncTargetInput(opts, o2.run, newState)],
                 "onChange", newState.input)
        ELSE o2

SubscribedKeys == {"a", "1", "Backspace", "CapsLock"}

ClickKeySubscribed(rowIndex, keyIndex) ==
    LET originalKey == KEYBOARD_LAYOUTS.default[rowIndex][keyIndex]
        o == handleKeyPressSubscribed(options, [run |-> Current, trace |-> <<>>],
                                      originalKey, probe.onStateChange)
    IN  /\ containerKeys
        /\ ClickListener \in listeners
        /\ state # Null
        /\ Commit(Caught(o.run))
        /\ probe' = [probe EXCEPT !.before = state.input, !.trace = o.trace]
        /\ lastOp' = Op("click", originalKey, Undefined, FALSE)
        /\ UNCHANGED <<options, dom, pointer, history, sibling, ttk, held, ftk>>

InitSubscribed ==
    /\ Idle
    /\ probe \in [fn : {"subscribers"}, onStateChange : Reactions,
                  before : {<<>>}, trace : {<<>>}]

NextSubscribed ==
    \E rc \in CellsOf(SubscribedKeys) : ClickKeySubscribed(rc[1], rc[2])

SpecSubscribed == InitSubscribed /\ [][NextSubscribed]_vars

(***************************************************************************)
(* The public methods of an instance before and after destroy().           *)
(***************************************************************************)
\* getInput(), getCaretPosition(): a field of state is read
getInput ==
    /\ Commit([Current EXCEPT !.thrown = (state = Null)])
    /\ lastOp' = Op("getInput", "", Undefined, state = Null)
    /\ UNCHANGED <<options, dom, pointer, history, others>>

getCaretPosition ==
    /\ Commit([Current EXCEPT !.thrown = (state = Null)])
    /\ lastOp' = Op("getCaretPosition", "", Undefined, state = Null)
    /\ UNCHANGED <<options, dom, pointer, history, others>>

\* getState(): { ...state }, an empty object when state is null
getState ==
    /\ Commit(Current)
    /\ lastOp' = Op("getState", "", Undefined, FALSE)
    /\ UNCHANGED <<options, dom, pointer, history, others>>

isTutorModeActive ==
    /\ Commit(Current)
    /\ lastOp' = Op("isTutorModeActive", "", Undefined, FALSE)
    /\ UNCHANGED <<options, dom, pointer, history, others>>

PublicMethods ==
    {"getInput", "getCaretPosition", "getState", "setInput", "clearInput",
     "setCaretPosition", "isTutorModeActive"}

DestroyedInputArgs == {Str(<<"b">>), Num(5)}
DestroyedCaretArgs == {Num(0), Num(1)}

InitDestroyed ==
    /\ options = NoOptions
    /\ Constructed
    /\ targetInput = NoTarget
    /\ recording = FALSE
    /\ presses = <<>>
    /\ probe = NoProbe
    /\ sibling = NoSibling
    /\ ttk = NoTtk
    /\ held = {}
    /\ ftk = NoFtk

NextDestroyed ==
    \/ \E rc \in CellsOf({"a"}) : ClickKey(rc[1], rc[2])
    \/ destroy
    \/ getInput
    \/ getCaretPosition
    \/ getState
    \/ isTutorModeActive
    \/ \E v \in DestroyedInputArgs : setInput(v)
    \/ clearInput
    \/ \E v \in DestroyedCaretArgs : setCaretPosition(v)

SpecDestroyed == InitDestroyed /\ [][NextDestroyed]_vars

(***************************************************************************)
(* Properties.                                                             *)
(***************************************************************************)
Xor(a, b) == (a /\ ~b) \/ (~a /\ b)

\* the text s without its i-th character, and with ch put after its first
\* c characters
RemoveAt(s, i) == SubSeq(s, 1, i - 1) \o SubSeq(s, i + 1, Len(s))
InsertAt(s, c, ch) == SubSeq(s, 1, c) \o <<ch>> \o SubSeq(s, c + 1, Len(s))

\* C1: for a letter given in either case and every (shift, caps),
\* transformCharacter returns the uppercase letter iff shift XOR caps and
\* the lowercase letter otherwise.
C1_LetterCaseByShiftXorCaps ==
    (probe.fn = "transformCharacter" /\ probe.done) =>
        \A i \in 1..26 :
            probe.char \in {LowerLetters[i], UpperLetters[i]} =>
                probe.result = IF Xor(probe.shift, probe.caps)
                               THEN UpperLetters[i] ELSE LowerLetters[i]

\* an uppercase letter given with Shift and CapsLock both on came out lowercase
C1_Witness ==
    /\ probe.fn = "transformCharacter" /\ probe.done
    /\ probe.char = "Q" /\ probe.shift /\ probe.caps
    /\ probe.result = "q"

\* C2: for a character that is not a letter the result is its SHIFT_MAP
\* entry when shift is on and the character is mapped, and the character
\* itself otherwise; CapsLock plays no part.
C2_SymbolByShiftOnly ==
    (/\ probe.fn = "transformCharacter" /\ probe.done
     /\ probe.char \notin Range(LowerLetters) \cup Range(UpperLetters)) =>
        IF probe.shift /\ \E i \in DOMAIN SHIFT_MAP_PAIRS : SHIFT_MAP_PAIRS[i][1] = probe.char
        THEN \E i \in DOMAIN SHIFT_MAP_PAIRS :
                /\ SHIFT_MAP_PAIRS[i][1] = probe.char
                /\ probe.result = SHIFT_MAP_PAIRS[i][2]
        ELSE probe.result = probe.char

\* the digit 1 given with CapsLock on and Shift off came out unchanged
C2_Witness ==
    /\ probe.fn = "transformCharacter" /\ probe.done
    /\ probe.char = "1" /\ ~probe.shift /\ probe.caps
    /\ probe.result = "1"

\* the characters a run of presses must have produced
TypedText(ps) ==
    [i \in 1..Len(ps) |->
        transformCharacter(ps[i].key,
            [isShiftPressed |-> ps[i].shift, isCapsLockOn |-> ps[i].caps])]

\* C3: from the empty buffer, after n character presses and nothing else
\* that edits the buffer, the buffer is the concatenation in press order of
\* the characters transformed under the modifiers of their press and the
\* caret is n.  It is checked for every run of up to MAX_INPUT_LENGTH + 1
\* presses, which covers every run below the length limit.
C3_TypedTextInOrder ==
    (recording /\ Len(presses) <= MAX_INPUT_LENGTH + 1) =>
        /\ state.input = TypedText(presses)
        /\ state.caretPosition = Len(presses)

\* a and 1 pressed with no modifier, then a and 1 with only CapsLock on
C3_Witness ==
    /\ recording
    /\ presses = << [key |-> "a", shift |-> FALSE, caps |-> FALSE],
                    [key |-> "1", shift |-> FALSE, caps |-> FALSE],
                    [key |-> "a", shift |-> FALSE, caps |-> TRUE],
                    [key |-> "1", shift |-> FALSE, caps |-> TRUE] >>
    /\ state.input = <<"a", "1", "A", "1">>
    /\ state.caretPosition = 4

\* C4: in every reachable state 0 <= caretPosition <= length(input).
C4_CaretWithinInput ==
    /\ state.caretPosition # NaN
    /\ 0 <= state.caretPosition
    /\ state.caretPosition <= Len(state.input)

\* C5: in every reachable state length(input) <= MAX_INPUT_LENGTH.
C5_InputWithinLimit == Len(state.input) <= MAX_INPUT_LENGTH

\* C6: setInput of a text longer than the limit leaves the buffer equal to
\* the first MAX_INPUT_LENGTH characters of the text and the caret at
\* MAX_INPUT_LENGTH, and raises no Error.
C6_SetInputTruncatesTail ==
    (/\ lastOp.op = "setInput" /\ lastOp.arg.type = "string"
     /\ Len(lastOp.arg.str) > MAX_INPUT_LENGTH) =>
        /\ state.input = SubSeq(lastOp.arg.str, 1, MAX_INPUT_LENGTH)
        /\ state.caretPosition = MAX_INPUT_LENGTH
        /\ ~lastOp.raised

\* setInput of a text two characters too long has acted
C6_Witness ==
    /\ lastOp.op = "setInput" /\ lastOp.arg.type = "string"
    /\ Len(lastOp.arg.str) = MAX_INPUT_LENGTH + 2
    /\ Len(state.input) = MAX_INPUT_LENGTH

\* the limit an instance would have if the option maxInputLength set it
ConfiguredLimit ==
    IF options.maxInputLength.type = "number"
    THEN options.maxInputLength.num
    ELSE MAX_INPUT_LENGTH

Shorter(a, b) == IF a <= b THEN a ELSE b

ClampedCaret(v, len) ==
    IF v.type # "number" \/ v.num = NaN \/ v.num < 0 THEN 0
    ELSE IF v.num > len THEN len
    ELSE v.num

\* C8: setCaretPosition(n) sets the caret to 0 when n is negative or not a
\* number, to the length when n is beyond it and to n otherwise; it raises
\* no Error and leaves the buffer as it was.
C8_SetCaretClamps ==
    [][lastOp'.op = "setCaretPosition" =>
          /\ state'.input = state.input
          /\ state'.caretPosition = ClampedCaret(lastOp'.arg, Len(state.input))
          /\ ~lastOp'.raised]_vars

\* C9 as stated: deleteAtCaret applied to the result of updateInputAtCaret
\* on (buf, c, ch), 0 <= c <= length(buf), returns (buf, c).
C9_RoundTrip ==
    (probe.fn = "roundTrip" /\ probe.stage = "deleted") =>
        /\ probe.final.newInput = probe.input
        /\ probe.final.newCaretPosition = probe.caret

\* C9 as amended: the round trip restores (buf, c) for every buffer
\* shorter than MAX_INPUT_LENGTH.
C9_RoundTripBelowLimit ==
    (/\ probe.fn = "roundTrip" /\ probe.stage = "deleted"
     /\ Len(probe.input) < MAX_INPUT_LENGTH) =>
        /\ probe.final.newInput = probe.input
        /\ probe.final.newCaretPosition = probe.caret

\* a character inserted in the middle of the longest buffer below the limit
\* and deleted again
C9_Witness ==
    /\ probe.fn = "roundTrip" /\ probe.stage = "deleted"
    /\ Len(probe.input) = MAX_INPUT_LENGTH - 1
    /\ probe.caret = 1
    /\ Len(probe.mid.newInput) = MAX_INPUT_LENGTH
    /\ probe.final.newInput = probe.input

\* the character a control token inserts
ControlChar(key) ==
    CASE key = "Enter" -> "\n" [] key = "Space" -> " " [] key = "Tab" -> "\t"

\* C10: a press of a control token, made with the caret within the buffer,
\* edits the buffer at the caret: Backspace removes the character before
\* the caret and decrements the caret (nothing changes at caret 0); Enter,
\* Space and Tab insert their character at the caret and increment it.
C10_ControlTokensEditAtCaret ==
    [][(/\ lastOp'.op \in {"click", "keydown"}
        /\ lastOp'.key \in ControlKeys
        /\ state.caretPosition # NaN
        /\ 0 <= state.caretPosition
        /\ state.caretPosition <= Len(state.input)) =>
          IF lastOp'.key = "Backspace"
          THEN IF state.caretPosition = 0
               THEN /\ state'.input = state.input
                    /\ state'.caretPosition = 0
               ELSE /\ state'.input = RemoveAt(state.input, state.caretPosition)
                    /\ state'.caretPosition = state.caretPosition - 1
          ELSE /\ state'.input = InsertAt(state.input, state.caretPosition,
                                          ControlChar(lastOp'.key))
               /\ state'.caretPosition = state.caretPosition + 1]_vars

\* the four modifier flags of a KeyboardState
ModifierFlags(st) ==
    <<st.isShiftPressed, st.isLeftShiftPressed, st.isRightShiftPressed,
      st.isCapsLockOn>>

\* how often a callback occurs in a sequence of calls
Count(cs, callback) == Cardinality({i \in DOMAIN cs : cs[i] = callback})

\* C11: setInput(s) with a string s no longer than the maximum leaves the
\* buffer equal to s and the caret at length(s); clearInput() leaves the
\* buffer empty and the caret 0; setInput, clearInput and setCaretPosition
\* change none of the four modifier flags.
C11_ApiEditsKeepModifiers ==
    [][/\ (/\ lastOp'.op = "setInput"
           /\ lastOp'.arg.type = "string"
           /\ Len(lastOp'.arg.str) <= MAX_INPUT_LENGTH)
          => /\ state'.input = lastOp'.arg.str
             /\ state'.caretPosition = Len(lastOp'.arg.str)
       /\ lastOp'.op = "clearInput"
          => /\ state'.input = <<>>
             /\ state'.caretPosition = 0
       /\ lastOp'.op \in {"setInput", "clearInput", "setCaretPosition"}
          => ModifierFlags(state') = ModifierFlags(state)]_vars

\* setInput of a non-empty text on an instance with the shift, left-shift
\* and CapsLock flags set
C11_Witness ==
    /\ lastOp.op = "setInput"
    /\ lastOp.arg.type = "string"
    /\ state.input = lastOp.arg.str
    /\ Len(state.input) = MAX_INPUT_LENGTH
    /\ state.isShiftPressed /\ state.isLeftShiftPressed /\ state.isCapsLockOn

C13_SetInputNonStringReportsOnError ==
    (lastOp.op = "setInput" /\ lastOp.arg.type # "string")
       => Count(calls, "onError") = 1

\* C14: setInput throws an Error to its caller when its argument is not a
\* string.
C14_SetInputNonStringThrows ==
    (lastOp.op = "setInput" /\ lastOp.arg.type # "string") => thrown

\* C15: after destroy() has returned, a hardware keydown or keyup event, in
\* any number and order and whatever the capture scope was, changes nothing
\* of the instance: the state stays as destroy left it, no callback is
\* invoked and no handler of the instance throws.
C15_NoKeyEventAfterDestroy ==
    [][(state = Null /\ lastOp'.op \in {"keydown", "keyup"})
         => /\ state' = state
            /\ isTutorMode' = isTutorMode
            /\ calls' = <<>>
            /\ ~thrown']_vars

\* a keydown after the destroy of an instance that was capturing
C15_Witness ==
    /\ state = Null
    /\ isTutorMode
    /\ lastOp.op = "keydown"

\* C16: destroy() is idempotent (a second call does not throw and changes
\* nothing); after destroy the key-element registry is empty and no
\* listener of the instance remains on the document, the tutor container
\* or the render container, so that no later click reaches the instance,
\* also when a new keyboard is built in the same container.
C16_DestroyLeavesNothing ==
    [][/\ (state = Null /\ lastOp'.op = "destroy")
          => /\ ~thrown'
             /\ instance' = instance
             /\ dom' = dom
       /\ state' = Null
          => /\ keyElements' = {}
             /\ listeners' = {}
       /\ (state = Null /\ lastOp'.op = "click")
          => /\ calls' = <<>>
             /\ state' = state]_vars

\* C17: in the class variant TypingTutorKeyboard, destroy() cleans up the
\* event listeners: after destroy() a hardware keydown or keyup event no
\* longer changes the instance's state or invokes its callbacks.
C17_ClassDestroyStopsKeyEvents ==
    [][(ttk.constructed /\ ttk.destroyed /\ ttk'.lastOp \in {"keydown", "keyup"})
         => /\ ttk'.state = ttk.state
            /\ ttk'.calls = <<>>]_vars

\* the callbacks of a key press when none throws
KeyPressCalls(key) ==
    <<"onKeyPress", "onStateChange">>
       \o (IF inputChanged(key) THEN <<"onChange">> ELSE <<>>)

\* the hardware events of a type that the physical key map takes to a key
EventsOfKey(type, key) ==
    KeyEvents(type, {PHYSICAL_KEY_PAIRS[i][1] :
                        i \in {j \in DOMAIN PHYSICAL_KEY_PAIRS :
                                  PHYSICAL_KEY_PAIRS[j][2] = key}})

\* C18: when a subscriber callback (onKeyPress, onStateChange, onChange,
\* onKeyRelease, onTutorModeChange) throws during an operation, the
\* exception does not leave the operation, the remaining callbacks of the
\* operation are still invoked, and the KeyboardState after the operation
\* is the one reached when no callback throws.
C18_ThrowingCallbackIsIsolated ==
    [][LET op == lastOp'
       IN  /\ ~thrown'
           /\ op.op = "click"
              => /\ calls' = KeyPressCalls(op.key)
                 /\ state' = handleKeyPressState(state, op.key)
           /\ (op.op = "keydown" /\ op.key # "")
              => /\ calls' = <<"onStateChange">>
                                \o (IF op.key \in {"ShiftLeft", "ShiftRight"}
                                    THEN <<>> ELSE KeyPressCalls(op.key))
                 /\ \E e \in EventsOfKey("keydown", op.key) :
                       state' = IF op.key \in {"ShiftLeft", "ShiftRight"}
                                THEN updateModifierStatesInternal(state, e)
                                ELSE handleKeyPressState(
                                        updateModifierStatesInternal(state, e), op.key)
           /\ (op.op = "keyup" /\ op.key # "")
              => /\ calls' = <<"onStateChange", "onKeyRelease">>
                 /\ \E e \in EventsOfKey("keyup", op.key) :
                       state' = updateModifierStatesInternal(state, e)
           /\ op.op = "tutorEnter"
              => /\ calls' = <<"onTutorModeChange">>
                 /\ isTutorMode'
                 /\ state' = state
           /\ op.op = "tutorLeave"
              => /\ calls' = <<"onTutorModeChange">>
                 /\ ~isTutorMode'
                 /\ state' = state
           /\ op.op = "setInput"
              => /\ calls' = <<"onStateChange", "onChange">>
                 /\ state' = [state EXCEPT !.input = validateInput(op.arg.str),
                                           !.caretPosition = Len(validateInput(op.arg.str))]
           /\ op.op = "clearInput"
              => /\ calls' = <<"onStateChange", "onChange">>
                 /\ state' = [state EXCEPT !.input = <<>>, !.caretPosition = 0]
           /\ op.op = "setCaretPosition"
              => /\ calls' = <<"onStateChange">>
                 /\ state' = [state EXCEPT !.caretPosition =
                                  validateCaretPosition(op.arg, Len(state.input))]]_vars

\* a hardware key press that typed a second character on an instance all
\* of whose callbacks throw
C18_Witness ==
    /\ options.throws = Subscribers
    /\ lastOp.op = "keydown"
    /\ lastOp.key = "a"
    /\ calls = <<"onStateChange", "onKeyPress", "onStateChange", "onChange">>
    /\ Len(state.input) = 2

\* C19: with two instances constructed on the same document, a single
\* hardware key event changes the buffer of at most one instance, for
\* every placement of the two instances' tutor containers.
C19_KeyEventEditsOneInstance ==
    [][(sibling.placement \in Placements /\ lastOp'.op \in {"keydown", "keyup"})
         => ~(/\ state'.input # state.input
              /\ sibling'.state.input # sibling.state.input)]_vars

\* C20: while tutor mode is inactive, a hardware keydown or keyup event of
\* any key changes no field of the KeyboardState and invokes no callback;
\* on a live instance tutor mode is active exactly between a mouseenter and
\* the next mouseleave of the tutor container, and never without a tutor
\* container.
C20_CaptureScopeGatesKeyEvents ==
    [][/\ (~isTutorMode /\ lastOp'.op \in {"keydown", "keyup"})
          => /\ state' = state
             /\ calls' = <<>>
             /\ ~isTutorMode'
       /\ isTutorMode' <=> (pointer' = "inside")
       /\ ~options.tutorContainer => ~isTutorMode']_vars

\* a keydown outside tutor mode, after the pointer has left the tutor
\* container of an instance that typed while it was inside
C20_Witness ==
    /\ options.tutorContainer
    /\ ~isTutorMode
    /\ pointer = "outside"
    /\ lastOp.op = "keydown"
    /\ state.input # <<>>
    /\ state.isShiftPressed

\* C21: entering the capture scope with a target input configured sets the
\* buffer to the target's content and the caret to the target's selection
\* start and keeps the four modifier flags; leaving the capture scope
\* changes no field of the KeyboardState
C21_EnterCopiesTargetLeaveKeepsState ==
    [][/\ (lastOp'.op = "tutorEnter" /\ options.targetInput)
          => /\ state'.input = targetInput.value
             /\ state'.caretPosition = targetInput.selectionStart
             /\ ModifierFlags(state') = ModifierFlags(state)
       /\ lastOp'.op = "tutorLeave" => state' = state]_vars

\* entering copied a non-empty target text with the caret inside it into a
\* state whose CapsLock flag was set
C21_Witness ==
    /\ lastOp.op = "tutorEnter"
    /\ options.targetInput
    /\ state.input = <<"x", "y">>
    /\ state.caretPosition = 1
    /\ state.isCapsLockOn
    /\ targetInput = [value |-> <<"x", "y">>, selectionStart |-> 1]

\* C22: while the capture scope is active and a target input is
\* configured, every completed operation that changes the buffer (a click
\* on a virtual key, a hardware key press, setInput, clearInput) leaves
\* the target's value equal to the buffer
C22_TargetMirrorsBuffer ==
    [][(/\ options.targetInput
        /\ isTutorMode'
        /\ lastOp'.op \in {"click", "keydown", "setInput", "clearInput"}
        /\ state'.input # state.input)
       => targetInput'.value = state'.input]_vars

\* the step handled the hardware event of the given type and code
Handled(op, type, code) ==
    /\ op.op = type
    /\ op.arg.type = type
    /\ op.arg.code = code

C24_OnlyHardwareEventsSetModifiers ==
    [][/\ (lastOp'.op = "click" /\ lastOp'.key \in ModifierKeys) => state' = state
       /\ lastOp'.op \notin {"keydown", "keyup"}
          => /\ state'.isCapsLockOn = state.isCapsLockOn
             /\ state'.isShiftPressed = state.isShiftPressed]_vars

\* the CapsLock key was clicked on a state with CapsLock off and shift
\* pressed, and the subscribers were told
C24_Witness ==
    /\ lastOp.op = "click"
    /\ lastOp.key = "CapsLock"
    /\ ~state.isCapsLockOn
    /\ state.isShiftPressed
    /\ state.isLeftShiftPressed
    /\ calls = <<"onKeyPress", "onStateChange">>

\* C26: isLeftShiftPressed becomes true only on a keydown of ShiftLeft and
\* false only on a keyup of ShiftLeft, and such an event sets it so;
\* symmetrically for isRightShiftPressed and ShiftRight; every other
\* operation leaves the two flags as they were
C26_SpecificShiftFlagsFollowTheirKey ==
    [][/\ Handled(lastOp', "keydown", "ShiftLeft") => state'.isLeftShiftPressed
       /\ Handled(lastOp', "keyup", "ShiftLeft") => ~state'.isLeftShiftPressed
       /\ Handled(lastOp', "keydown", "ShiftRight") => state'.isRightShiftPressed
       /\ Handled(lastOp', "keyup", "ShiftRight") => ~state'.isRightShiftPressed
       /\ state'.isLeftShiftPressed # state.isLeftShiftPressed
          => \/ Handled(lastOp', "keydown", "ShiftLeft")
             \/ Handled(lastOp', "keyup", "ShiftLeft")
       /\ state'.isRightShiftPressed # state.isRightShiftPressed
          => \/ Handled(lastOp', "keydown", "ShiftRight")
             \/ Handled(lastOp', "keyup", "ShiftRight")]_vars

\* ShiftRight went up while ShiftLeft stayed down: only the right flag fell
C26_Witness ==
    /\ Handled(lastOp, "keyup", "ShiftRight")
    /\ state.isLeftShiftPressed
    /\ ~state.isRightShiftPressed
    /\ state.isShiftPressed

\* C25: for every state and every hardware event the state that
\* updateModifierStatesInternal returns has the input and the caretPosition
\* of the state it was given, and the given state object is not modified
C25_ModifierUpdateKeepsTextAndArgument ==
    (probe.fn = "updateModifierStatesInternal" /\ probe.stage = "returned")
    => /\ probe.heap[probe.returned].input = probe.given.input
       /\ probe.heap[probe.returned].caretPosition = probe.given.caretPosition
       /\ probe.heap[probe.currentState] = probe.given

\* a keydown of ShiftLeft reporting CapsLock on returned a new object with
\* three flags changed and the text "ab" with the caret at 1 kept
C25_Witness ==
    /\ probe.fn = "updateModifierStatesInternal"
    /\ probe.stage = "returned"
    /\ probe.event = [type |-> "keydown", code |-> "ShiftLeft",
                      shiftKey |-> TRUE, capsLock |-> TRUE]
    /\ probe.given.input = <<"a", "b">>
    /\ probe.given.caretPosition = 1
    /\ ModifierFlags(probe.given) = <<FALSE, FALSE, FALSE, FALSE>>
    /\ ModifierFlags(probe.heap[probe.returned]) = <<TRUE, TRUE, FALSE, TRUE>>

\* C27: when the shift flag of the hardware events is true exactly while a
\* physical shift key is down, isShiftPressed is the logical OR of
\* isLeftShiftPressed and isRightShiftPressed in every reachable state,
\* also across entering and leaving the capture scope with a shift key down
C27_ShiftIsOrOfSpecificFlags ==
    state.isShiftPressed = (state.isLeftShiftPressed \/ state.isRightShiftPressed)

\* C28: every change of the live KeyboardState is made by setState and
\* notified: after every completed operation (key click, hardware event,
\* setInput, clearInput, setCaretPosition, tutor enter) that changed the
\* state, the last snapshot handed to onStateChange equals getState()
C28_EveryStateChangeIsNotified ==
    [][(state # Null /\ state' # Null /\ state' # state)
       => /\ snapshot' = state'
          /\ Count(calls', "onStateChange") >= 1]_vars

\* a hardware keydown called setState twice (the modifier update, then the
\* edit) and the last snapshot is the state after the edit
C28_Witness ==
    /\ lastOp.op = "keydown"
    /\ lastOp.key = "a"
    /\ Count(calls, "onStateChange") = 2
    /\ state.isCapsLockOn
    /\ state.input = <<"x", "A", "y">>
    /\ snapshot = state

\* C29: onChange is invoked only when the input text changed: an operation
\* that leaves the buffer text as it was (Backspace with the caret at 0,
\* setInput of the current text, clearInput on an empty buffer) does not
\* invoke onChange
C29_OnChangeOnlyWhenTextChanged ==
    [][(state # Null /\ state' # Null /\ Count(calls', "onChange") >= 1)
       => state'.input # state.input]_vars

\* C30: constructing a keyboard whose container option is missing or
\* resolves to no element throws synchronously and aborts construction: no
\* listener is registered, nothing is rendered and no instance is returned
C30_MissingContainerAbortsConstruction ==
    [][(/\ lastOp'.op = "construct"
        /\ lastOp'.arg.type \in {"undefined", "selector-unmatched"})
       => /\ thrown'
          /\ lastOp'.raised
          /\ listeners' = {}
          /\ keyElements' = {}
          /\ ~containerKeys'
          /\ state' = Null]_vars

\* a construction with a selector that matches nothing threw, after the
\* pointer had moved into the tutor container and keys had been pressed
C30_Witness ==
    /\ lastOp.op = "construct"
    /\ lastOp.arg.type = "selector-unmatched"
    /\ thrown
    /\ pointer = "inside"
    /\ listeners = {}
    /\ state = Null

\* C31: a hardware key event whose code is not in the physical key map is
\* ignored inside the capture scope too: it changes no field of the
\* KeyboardState, changes no class of the container or of a key element
\* (no key is highlighted) and invokes no callback
C31_UnmappedCodeIsIgnored ==
    [][(/\ isTutorMode
        /\ state # Null
        /\ lastOp'.op \in {"keydown", "keyup"}
        /\ lastOp'.key = "")
       => /\ state' = state
          /\ calls' = <<>>
          /\ ~thrown'
          /\ view'.highlighted = {}
          /\ view'.unhighlighted = {}
          /\ view'.shiftLayout = view.shiftLayout
          /\ view'.activeModifier = view.activeModifier]_vars

\* an unmapped key went down inside the capture scope, after typing, with
\* CapsLock on and the shift flag off
C31_Witness ==
    /\ isTutorMode
    /\ lastOp.op = "keydown"
    /\ lastOp.key = ""
    /\ state.input = <<"A">>
    /\ state.isCapsLockOn
    /\ ~state.isShiftPressed
    /\ view.activeModifier = {"CapsLock"}
    /\ view.shiftLayout

\* C32: in the functional variant every handler computes the next state
\* from the store's current state: no accepted edit is lost, so n successive
\* character key presses from an empty buffer leave a buffer of length n
C32_FunctionalVariantLosesNoEdit ==
    (ftk.constructed /\ ftk.typed >= 0) => Len(ftk.state.input) = ftk.typed


\* C33: the transformCharacter of the functional variant and of the class
\* variant return, for every character and every (shift, caps), the result
\* of the transformCharacter of kids-keyboard.js
C33_VariantsTransformAlike ==
    (probe.fn = "transformCharacterVariants" /\ probe.done)
        => /\ probe.functional = probe.kids
           /\ probe.class = probe.kids


\* C34: a hardware keydown of a mapped character key that reports
\* (shiftKey = s, CapsLock = c) inserts transformCharacter(key, s, c),
\* whatever modifier flags were stored before the event: the character
\* before the new caret is that character, and the rest of the buffer is
\* the buffer of before the event, cut to the length limit
C34_KeydownInsertsUnderReportedModifiers ==
    [][\A code \in {"KeyA", "Digit1"} :
          Handled(lastOp', "keydown", code)
          => LET event == lastOp'.arg
                 reported == [isShiftPressed |-> event.shiftKey,
                              isCapsLockOn |-> event.capsLock]
                 inserted == transformCharacter(physicalKeyMapGet(code), reported)
                 at == state'.caretPosition
                 kept == IF Len(state.input) > MAX_INPUT_LENGTH
                         THEN SubSeq(state.input, 1, MAX_INPUT_LENGTH)
                         ELSE state.input
             IN  /\ at \in 1..Len(state'.input)
                 /\ state'.input[at] = inserted
                 /\ SubSeq(state'.input, 1, at - 1)
                       \o SubSeq(state'.input, at + 1, Len(state'.input)) = kept]_vars

\* the stored flags said shift off and CapsLock on, the keydown of Digit1
\* reported shift on and CapsLock off, and "!" was appended to "a"
C34_Witness ==
    /\ Handled(lastOp, "keydown", "Digit1")
    /\ lastOp.arg.shiftKey
    /\ ~lastOp.arg.capsLock
    /\ state.input = <<"A", "!">>
    /\ state.isShiftPressed
    /\ ~state.isCapsLockOn


\* C35: after construction and after every completed operation until
\* destroy, the render container carries the class shift-layout iff
\* isShiftPressed XOR isCapsLockOn in the current state
C35_ShiftLayoutClassFollowsState ==
    state # Null => (view.shiftLayout <=> (state.isShiftPressed # state.isCapsLockOn))

\* shift and CapsLock are both on after a keydown of KeyA that typed "a",
\* and the container does not carry the class
C35_Witness ==
    /\ Handled(lastOp, "keydown", "KeyA")
    /\ state.isShiftPressed
    /\ state.isCapsLockOn
    /\ state.input = <<"A", "a">>
    /\ ~view.shiftLayout

\* C36: after every setState the ShiftLeft key element carries
\* active-modifier iff isLeftShiftPressed, the ShiftRight element iff
\* isRightShiftPressed, the CapsLock element iff isCapsLockOn, and no other
\* key element carries it
C36_ActiveModifierClassesFollowState ==
    state # Null
    => /\ ("ShiftLeft" \in view.activeModifier) <=> state.isLeftShiftPressed
       /\ ("ShiftRight" \in view.activeModifier) <=> state.isRightShiftPressed
       /\ ("CapsLock" \in view.activeModifier) <=> state.isCapsLockOn
       /\ view.activeModifier \subseteq ModifierKeys

\* the right shift key went down while the left one was held and CapsLock
\* was on: all three elements are marked
C36_Witness ==
    /\ Handled(lastOp, "keydown", "ShiftRight")
    /\ state.isLeftShiftPressed
    /\ state.isRightShiftPressed
    /\ state.isCapsLockOn
    /\ view.activeModifier = ModifierKeys


\* C37: the key grid is built once: from the end of construction on, no
\* operation adds, removes or replaces an entry of the key-element registry
\* or a key node of the container (here in the functional variant, whose
\* setState is one of the places the grid is maintained)
C37_KeyGridBuiltOnce ==
    [][(ftk.constructed /\ ftk'.constructed)
       => /\ ~ftk'.rerendered
          /\ ftk'.keyElements = ftk.keyElements]_vars


\* C38: for every single-character key cell [r][c] and every modifier state
\* (shift, caps), the glyph of the layout selected by getCurrentLayout at
\* [r][c] is the character that a press of that key inserts
C38_DisplayShowsWhatIsTyped ==
    (probe.fn = "getCurrentLayout" /\ probe.done) => probe.glyph = probe.typed


\* C39: on a key press that edits the buffer the callbacks run in the order
\* onKeyPress, onStateChange, onChange; during onKeyPress getInput() returns
\* the buffer from before the press and during onChange(text) getInput()
\* returns text, also when a subscriber calls setInput or clearInput from
\* inside onStateChange
C39_CallbacksSeeTheirBuffer ==
    (probe.fn = "subscribers" /\ lastOp.op = "click" /\ inputChanged(lastOp.key))
    => LET trace == probe.trace
           n == Len(trace)
       IN  /\ n >= 3
           /\ trace[1].callback = "onKeyPress"
           /\ trace[1].getInput = probe.before
           /\ trace[2].callback = "onStateChange"
           /\ trace[n].callback = "onChange"
           /\ \A i \in 1..n : trace[i].callback = "onKeyPress" => i = 1
           /\ \A i \in 1..n : trace[i].callback = "onChange"
                                 => trace[i].getInput = trace[i].text


\* C40: after destroy() has returned, every public method of the instance
\* (getInput, getCaretPosition, getState, setInput, clearInput,
\* setCaretPosition, isTutorModeActive) completes without throwing
C40_PublicMethodsSurviveDestroy ==
    ("document.keydown" \notin listeners /\ lastOp.op \in PublicMethods) => ~thrown

=============================================================================
